---- MODULE Spec2Model ----
(***************************************************************************)
(* Scubywasm host: the match runtime (game.py, agent.py, engine.py,        *)
(* wasmmodule.py), the match loops of the three runners, and the log       *)
(* numbering of the supervisor's Logger (server.py).                       *)
(*                                                                         *)
(* The engine and agent WASM modules are external guests: every guest call *)
(* is a step whose outcome (return value, fuel cost, trap) is chosen       *)
(* nondeterministically.  Python's None is the empty sequence, a present   *)
(* value v is <<v>>.  Team indices are 1-based here (0-based in the code); *)
(* agent ids are the 0-based integers the engine hands out.                *)
(***************************************************************************)
EXTENDS Integers, Sequences, FiniteSets, TLC

\* ---------------------------------------------------------------- bounds
MaxTeams == 2
MaxMult == 2
MaxIds == 2
MaxCalls == 2
MaxFuel == 1
MaxTicksArg == 2
MaxSaves == 3
MaxIndex == 12
MaxNow == 4
MaxSubmits == 4
MaxWorkers == 2
MaxRounds == 2
\* fractions are kept in steps of 1 / Resolution
Resolution == 100000

\* ------------------------------------------------------ program constants
InitFuelFactor == 100
NConfigParams == 5
FuelFloor == 100
PageBytes == 65536
DefaultMemory == 64000000
UsageError == 2
HalfWord == 65536

None == <<>>
Some(v) == <<v>>

\* Markers below every team index, agent id, argument and tick number.
Engine == 0 - 1
Never == 0 - 1
NoId == 0 - 1
NoVal == 0 - 1

VARIABLES
    driver,      \* who drives the match: "api" (any caller of Game), or a runner
    max_ticks,   \* the runner's loop bound (range(max_ticks))
    loops,       \* iterations of the runner's loop started so far
    ret,         \* return value of the last completed tick(), None before
    pc,          \* position of the host program
    n,           \* len(agent_wasms)
    m,           \* agent_multiplicity
    fuel_limit,  \* Game._agent_fuel_limit
    ticks,       \* Game.ticks
    n_times,     \* argument of the running tick()
    i,           \* outer loop cursor (team)
    j,           \* inner loop cursor (id within the team)
    k,           \* innermost cursor (the agent a broadcast goes to / the pose registered)
    obs,         \* engine readings of the id being observed
    team_alive,  \* local team_alive of tick()
    acc_score,   \* local acc_score of tick()
    agents,      \* the Agent objects, in team order
    agent_ids,   \* ids returned by engine.add_agent, in registration order
    eng,         \* the engine guest's state
    log,         \* Game._log
    calls,       \* calls issued by the running (or last) tick(), in order
    done_calls,  \* completed tick() calls
    stalled,     \* completed tick() calls that returned teams_alive <= 1
    game_rng,    \* local rng of Game.__init__: random.Random(seed)
    init_poses,  \* local init_poses of Game.__init__
    seeds,       \* the seed each Agent was constructed with, in team order
    files,       \* names present in the Logger's directory
    idx,         \* Logger._idx
    saved,       \* names written by save_log, in order
    existing,    \* names that matched the pattern when the Logger was created
    \* server._run_game, agent selection
    agents_dir,      \* the entries of AGENTS_DIR
    seen,            \* entries iterdir() has yielded so far
    agent_wasmfiles, \* the list agent_wasmfiles
    \* the coordinators of server.main and service_runner.main
    service,     \* which of the two
    workers,     \* args.workers / len(scenarios)
    stopping,    \* the flag the signal handler sets
    futures,     \* the coordinator's set futures
    done,        \* the set done being iterated
    future,      \* the loop variable of "for future in done"
    fut,         \* every future made so far, in submission order
    rng,         \* the coordinator's random.Random(args.seed)
    scenario,    \* the coordinator's variable scenario (service_runner.main)
    \* Scenario.run
    self_agents, \* Scenario.agents, the snapshot
    self_round,  \* Scenario.round
    self_seed,   \* Scenario.seed
    max_rounds,  \* Scenario.max_rounds
    result_dir,  \* Scenario.result_dir
    notified,    \* Scenario.notified
    found,       \* the local agents of run(): the lineup gather_agents() found
    now,         \* the wall clock, in milliseconds
    played,      \* what the rounds so far did, in order
    last_game,   \* the match run_game ran last, in whatever round
    \* service_runner._read_scenarios
    scenario_file, \* the parsed JSON document
    index,         \* the element being read
    scenarios,     \* names of the Scenario objects created so far
    error,         \* the exception that ended the read, if any
    \* command lines
    program,     \* "local" (game.main) or "supervisor" (server.main)
    args,        \* the parsed flags
    outcome      \* how main went on

gameVars == <<driver, max_ticks, loops, ret, pc, n, m, fuel_limit, ticks, n_times,
              i, j, k, obs, team_alive, acc_score, agents, agent_ids, eng, log,
              calls, done_calls, stalled>>
\* gameVars without the program position
matchVars == <<driver, max_ticks, loops, ret, n, m, fuel_limit, ticks, n_times,
               i, j, k, obs, team_alive, acc_score, agents, agent_ids, eng, log,
               calls, done_calls, stalled, game_rng, init_poses, seeds>>
\* what Game.__init__ draws and lays out
poseVars == <<game_rng, init_poses, seeds>>
loggerVars == <<files, idx, saved, existing>>
selVars == <<agents_dir, seen, agent_wasmfiles>>
coordVars == <<service, workers, stopping, futures, done, future, fut, rng, scenario>>
scenVars == <<self_agents, self_round, self_seed, max_rounds, result_dir, notified,
              found, now, played, last_game>>
fileVars == <<scenario_file, index, scenarios, error>>
cliVars == <<program, args, outcome>>
otherVars == <<selVars, coordVars, scenVars, fileVars, cliVars>>
\* everything a tick() leaves alone
sideVars == <<poseVars, otherVars>>
vars == <<gameVars, loggerVars, sideVars>>

\* ---------------------------------------------------------- random.Random
\* A 32-bit word as its two 16-bit halves (hi * 65536 + lo).
Word(hi, lo) == [hi |-> hi % HalfWord, lo |-> lo % HalfWord]

NoSeed == [hi |-> 0 - 1, lo |-> 0 - 1]

\* random.Random(seed): the nth 32-bit output of the generator is a fixed
\* function of the seed and nth.
MT(seed, nth) ==
    Word((seed \div HalfWord) * 31 + (seed % HalfWord) + nth * 40503,
         (seed % HalfWord) + nth * 30011)

Random(seed) == [seed |-> seed, drawn |-> 0]

\* rng.getrandbits(32): the next output, and the generator moved on.
getrandbits(r) ==
    [value |-> MT(r.seed, r.drawn + 1), rng |-> [r EXCEPT !.drawn = r.drawn + 1]]

\* rng._randbelow(b): one output, reduced to 0 .. b - 1
randbelow(r, b) ==
    LET d == getrandbits(r)
    IN [value |-> (d.value.hi + d.value.lo) % b, rng |-> d.rng]

\* rng.random(): a fraction in [0, 1), in steps of 1 / Resolution
random(r) == randbelow(r, Resolution)

\* rng.uniform(a, b): a + (b - a) * random()
uniform(r, a, b) ==
    LET d == random(r)
    IN [value |-> a + ((b - a) * d.value) \div Resolution, rng |-> d.rng]

\* w + 1, where w is a 32-bit word; 2^32 is hi = 65536, lo = 0.
Succ(w) == IF w.lo + 1 < HalfWord THEN [hi |-> w.hi, lo |-> w.lo + 1]
           ELSE [hi |-> w.hi + 1, lo |-> 0]

\* rng.randint(1, 1 << 32): 1 + randbelow(2^32), both ends included
randint(r) ==
    LET d == getrandbits(r)
    IN [value |-> Succ(d.value), rng |-> d.rng]

\* x[a], x[b] = x[b], x[a]
Swap(x, a, b) == [x EXCEPT ![a] = x[b], ![b] = x[a]]

\* rng.shuffle(x): for i in reversed(range(1, len(x))), swap x[i] with
\* x[randbelow(i + 1)]; last is the 0-based i.
RECURSIVE shuffle(_, _, _)
shuffle(r, x, last) ==
    IF last < 1 THEN [value |-> x, rng |-> r]
    ELSE LET d == randbelow(r, last + 1)
         IN shuffle(d.rng, Swap(x, last + 1, d.value + 1), last - 1)

\* ------------------------------------------------------------ guest calls
\* What a guest export does when it is entered: whether it traps for a reason
\* of its own, the fuel it burns, and the value it returns.
\* A store without metering charges nothing; a latched agent is not entered, so
\* what its guest would do is not a choice.  The config setters are taken to be
\* free of charge.
Costs == 0..1
ActionRets == {None, Some(0), Some(1)}
Outcomes(costs, rets) == [trap : BOOLEAN, cost : costs, ret : rets]
StoreOutcomes(metered) == Outcomes(IF metered THEN Costs ELSE {0}, {None})
ConfigOutcomes == Outcomes({0}, {None})
Quiet == [trap |-> FALSE, cost |-> 0, ret |-> None]
VoidOutcomes(ag) ==
    IF ag.trapped THEN {Quiet} ELSE StoreOutcomes(ag.fuel # None)
ActionOutcomes(ag) ==
    IF ag.trapped THEN {Quiet}
    ELSE Outcomes(IF ag.fuel # None THEN Costs ELSE {0}, ActionRets)

\* One entry of the trace: the host calls op on tgt (an agent binding by its
\* index, or Engine) about agent id; val is the integer argument that matters.
Ev(op, tgt, id, val) ==
    [op |-> op, tgt |-> tgt, id |-> id, val |-> val]

\* The export runs in the agent's store.  With fuel metering the store's fuel
\* pays for it; a call that needs more than is left runs the store dry and traps.
GuestRun(ag, o) ==
    IF ag.fuel = None
    THEN [ag |-> ag, raised |-> o.trap]
    ELSE IF o.cost > ag.fuel[1]
         THEN [ag |-> [ag EXCEPT !.fuel = Some(0)], raised |-> TRUE]
         ELSE [ag |-> [ag EXCEPT !.fuel = Some(ag.fuel[1] - o.cost)], raised |-> o.trap]

\* fuel_guard without the check of the latch: a latched agent is called again.
fuel_guard_reentrant(ag, o) ==
    LET g == GuestRun(ag, o)
    IN IF g.raised
       THEN [ag |-> [g.ag EXCEPT !.trapped = TRUE], ret |-> None,
             guest |-> TRUE, raised |-> FALSE]
       ELSE [ag |-> g.ag, ret |-> o.ret, guest |-> TRUE, raised |-> FALSE]

\* fuel_guard without the except clause: the exception of the wrapped call
\* leaves the wrapper and the agent is not latched.
fuel_guard_uncaught(ag, o) ==
    IF ag.trapped
    THEN [ag |-> ag, ret |-> None, guest |-> FALSE, raised |-> FALSE]
    ELSE LET g == GuestRun(ag, o)
         IN [ag |-> g.ag, ret |-> IF g.raised THEN None ELSE o.ret,
             guest |-> TRUE, raised |-> g.raised]

\* agent.py fuel_guard: a latched agent returns None without calling; an
\* exception of the wrapped call latches the agent and returns None.
\* guest: the export was entered; raised: an exception leaves the wrapper.
fuel_guard(ag, o) ==
    IF ag.trapped
    THEN [ag |-> ag, ret |-> None, guest |-> FALSE, raised |-> FALSE]
    ELSE LET g == GuestRun(ag, o)
         IN IF g.raised
            THEN [ag |-> [g.ag EXCEPT !.trapped = TRUE], ret |-> None,
                  guest |-> TRUE, raised |-> FALSE]
            ELSE [ag |-> g.ag, ret |-> o.ret, guest |-> TRUE, raised |-> FALSE]

\* Bookkeeping around a call on an agent binding, not part of the program:
\* after counts the guest entries made while the agent was already latched,
\* when is the tick (0: construction) in which the agent was latched.
Noted(old, new, guest, t) ==
    [new EXCEPT !.after = IF old.trapped /\ guest THEN @ + 1 ELSE @,
                !.when = IF ~old.trapped /\ new.trapped THEN t ELSE @]

\* A guarded method of the agent binding called during tick t.
Guarded(ag, o, t) ==
    LET r == fuel_guard(ag, o)
    IN [ag |-> Noted(ag, r.ag, r.guest, t), ret |-> r.ret, raised |-> r.raised]

\* refuel without the test of the latch.
refuel_latched(ag, level) ==
    IF level # None THEN [ag EXCEPT !.fuel = level] ELSE ag

\* Agent.refuel(level=...)
refuel(ag, level) ==
    IF ~ag.trapped /\ level # None THEN [ag EXCEPT !.fuel = level] ELSE ag

\* Agent.fuel_level
fuel_level(ag) ==
    IF ag.fuel_limited THEN ag.fuel ELSE None

\* ------------------------------------------------------------ the engine
\* The engine guest: ships registered, which are alive, its clock and scores.
\* Its physics is not the host's; poses are a fixed function of id and clock,
\* in units of 10^-5.
\* failed: one of its exports has failed.
EngineNew == [n |-> 0, alive |-> <<>>, score |-> <<>>, clock |-> 0, failed |-> FALSE]

EngineFails(e) == [e EXCEPT !.failed = TRUE]

\* An engine call wrapped in a handler that swallows its exception.
PropagateSwallowed(ok, next) == next

\* Nothing in game.py or engine.py catches an exception of an engine call: the
\* program goes on to next only if the call returned.
Propagate(ok, next) == IF ok THEN next ELSE "raised"

EnginePose(id, clock) ==
    [x |-> (id * 25013 + clock * 1007) % 100000,
     y |-> (id * 33331 + clock * 2003) % 100000,
     heading |-> ((id * 9001 + clock * 1234567) % 36000000)]

EngineShot(id, clock) ==
    [pose |-> [x |-> (id * 11117 + clock * 3001) % 100000,
               y |-> (id * 7 + clock * 5003) % 100000,
               heading |-> 0],
     lifetime |-> (id + clock) % 3]

\* Python round(v, d) for v in units of 10^-5: the nearest multiple of
\* 10^(5-d), ties to the even one.
Pow10(e) == IF e = 0 THEN 1 ELSE IF e = 1 THEN 10 ELSE IF e = 2 THEN 100
            ELSE IF e = 3 THEN 1000 ELSE IF e = 4 THEN 10000 ELSE 100000

round(v, d) ==
    LET q == Pow10(5 - d)
        lo == (v \div q) * q
        r == v - lo
    IN IF 2 * r < q THEN lo
       ELSE IF 2 * r > q THEN lo + q
       ELSE IF (lo \div q) % 2 = 0 THEN lo ELSE lo + q

\* ---------------------------------------------------------- team layout
Teams == 1..n
\* The slice of line 96 taken from its far end.
TeamIdsBackwards(t) == [q \in 1..m |-> agent_ids[t * m - q + 1]]

\* batched_agent_ids[t-1] = agent_ids[(t-1)*m : t*m]
TeamIds(t) == [q \in 1..m |-> agent_ids[(t - 1) * m + q]]
TeamIdSet(t) == {TeamIds(t)[q] : q \in 1..m}

EmptyTeamLog(ids) ==
    [ships |-> [id \in ids |-> [x |-> <<>>, y |-> <<>>, heading |-> <<>>, alive |-> <<>>]],
     shots |-> [id \in ids |-> [x |-> <<>>, y |-> <<>>, lifetime |-> <<>>]],
     actions |-> [id \in ids |-> <<>>],
     scores |-> <<>>,
     fuel |-> <<>>]

\* ---------------------------------------------------------- construction
\* Game.__init__ up to the Engine: ticks = 0, the fuel limit is kept, the
\* engine is instantiated (its exports may fail, and nothing catches that).
Construct_Engine ==
    /\ pc = "new"
    /\ \E ok \in BOOLEAN :
         /\ pc' = Propagate(ok, "agent_module")
         /\ eng' = IF ok THEN eng ELSE EngineFails(eng)
         /\ calls' = Append(calls, Ev("Engine", Engine, NoId, NoVal))
    /\ i' = 1
    /\ UNCHANGED loggerVars
    /\ UNCHANGED sideVars
    /\ UNCHANGED <<driver, max_ticks, loops, ret, n, m, fuel_limit, ticks, n_times,
                   j, k, obs, team_alive, acc_score, agents, agent_ids, log,
                   done_calls, stalled>>

\* Game.__init__ line 68 draws the agent's seed as an argument, before
\* Agent.__init__ is entered.
\* Agent.__init__ line 33: WASMModule(wasm, store, wasi=True) instantiates the
\* module and runs _initialize / __wasm_call_ctors, outside the try block.
\* A store built with consume_fuel starts with no fuel.
Agent_Module ==
    /\ pc = "agent_module"
    /\ \E o \in StoreOutcomes(fuel_limit # None) :
         LET store == [trapped |-> FALSE,
                       fuel |-> IF fuel_limit # None THEN Some(0) ELSE None,
                       fuel_limited |-> fuel_limit # None,
                       after |-> 0,
                       when |-> Never]
             g == GuestRun(store, o)
         IN /\ calls' = Append(calls, Ev("_initialize", i, NoId, NoVal))
            /\ IF g.raised
               THEN pc' = "raised" /\ agents' = agents
               ELSE pc' = "agent_init" /\ agents' = Append(agents, g.ag)
    /\ LET d == randint(game_rng)
       IN seeds' = Append(seeds, d.value) /\ game_rng' = d.rng
    /\ UNCHANGED loggerVars
    /\ UNCHANGED <<init_poses, otherVars>>
    /\ UNCHANGED <<driver, max_ticks, loops, ret, n, m, fuel_limit, ticks, n_times,
                   i, j, k, obs, team_alive, acc_score, agent_ids, eng, log,
                   done_calls, stalled>>

\* ---------------------------------------------------------- start poses
\* A Pose. Generated positions are kept exactly, in steps of
\* grid_spacing / Resolution: x stands for the position x / (G * Resolution).
\* Headings are in steps of 1 / Resolution degrees.
Pose(x, y, heading) == [x |-> x, y |-> y, heading |-> heading]

\* init_poses=None
NotGiven == [given |-> FALSE, list |-> <<>>]
\* init_poses=[...], a list of len poses
Given(len) == [given |-> TRUE,
               list |-> [q \in 1..len |-> Pose(Resolution \div 2, Resolution \div 2, 0)]]

\* Only a list that is too short is turned away.
WrongLengthShort(len, cnt) == len < cnt

\* line 75: len(init_poses) != n * m
WrongLength(len, cnt) == len # cnt

\* The square root rounded down.
grid_size_floor(cnt) ==
    CHOOSE g \in 0..cnt : g * g <= cnt /\ (g + 1) * (g + 1) > cnt

\* line 81: math.ceil(math.sqrt(n * m))
grid_size(cnt) ==
    CHOOSE g \in 0..cnt : g * g >= cnt /\ \A h \in 0..(g - 1) : h * h < cnt

\* lines 83-91: the poses of cells c .. G*G - 1; cell c is (c \div G, c % G),
\* and each pose draws x, y and heading in this order.
RECURSIVE cells(_, _, _)
cells(r, G, c) ==
    IF c >= G * G THEN [value |-> <<>>, rng |-> r]
    ELSE LET ux == uniform(r, (2 * Resolution) \div 5, (3 * Resolution) \div 5)
             uy == uniform(ux.rng, (2 * Resolution) \div 5, (3 * Resolution) \div 5)
             hd == random(uy.rng)
             rest == cells(hd.rng, G, c + 1)
         IN [value |-> <<Pose((c \div G) * Resolution + ux.value,
                              (c % G) * Resolution + uy.value,
                              360 * hd.value)>> \o rest.value,
             rng |-> rest.rng]

\* line 93: init_poses[: n * m]
head(x, cnt) == SubSeq(x, 1, IF cnt < Len(x) THEN cnt ELSE Len(x))

\* lines 81-93
generated(r, cnt) ==
    LET grid == cells(r, grid_size(cnt), 0)
        mixed == shuffle(grid.rng, grid.value, Len(grid.value) - 1)
    IN [value |-> head(mixed.value, cnt), rng |-> mixed.rng]

\* Where construction goes after agent i is built.
AfterAgent(t) == IF t = n THEN "poses" ELSE "agent_module"

\* Agent.__init__ lines 37-43: set_fuel(init_fuel_level), then init_agent;
\* an exception latches the agent and skips the config push.
Agent_Init ==
    /\ pc = "agent_init"
    /\ \E o \in StoreOutcomes(fuel_limit # None) :
         LET init_fuel_level == IF fuel_limit = None THEN None
                                ELSE Some(InitFuelFactor * fuel_limit[1])
             a0 == IF agents[i].fuel_limited
                   THEN [agents[i] EXCEPT !.fuel = init_fuel_level]
                   ELSE agents[i]
             g == GuestRun(a0, o)
         IN /\ agents' = [agents EXCEPT ![i] =
                            Noted(@, [g.ag EXCEPT !.trapped = g.raised], TRUE, 0)]
            /\ calls' = calls \o
                 (IF agents[i].fuel_limited
                  THEN <<Ev("set_fuel", i, NoId, init_fuel_level[1])>> ELSE <<>>)
                 \o <<Ev("init_agent", i, NoId, NoVal)>>
            /\ pc' = IF g.raised THEN AfterAgent(i) ELSE "agent_cfg"
            /\ i' = IF g.raised THEN i + 1 ELSE i
            /\ k' = 1
    /\ UNCHANGED loggerVars
    /\ UNCHANGED sideVars
    /\ UNCHANGED <<driver, max_ticks, loops, ret, n, m, fuel_limit, ticks, n_times,
                   j, obs, team_alive, acc_score, agent_ids, eng, log,
                   done_calls, stalled>>

\* Agent.__init__ lines 45-56: set_config_parameter(ctx, k-1, value) for the
\* five config fields; an exception latches the agent and ends the push.
Agent_Config ==
    /\ pc = "agent_cfg"
    /\ \E o \in ConfigOutcomes :
         LET g == GuestRun(agents[i], o)
             last == g.raised \/ k = NConfigParams
         IN /\ agents' = [agents EXCEPT ![i] =
                            Noted(@, [g.ag EXCEPT !.trapped = g.raised], TRUE, 0)]
            /\ calls' = Append(calls,
                   Ev("set_config_parameter", i, NoId, k - 1))
            /\ pc' = IF last THEN AfterAgent(i) ELSE "agent_cfg"
            /\ i' = IF last THEN i + 1 ELSE i
            /\ k' = IF last THEN 1 ELSE k + 1
    /\ UNCHANGED loggerVars
    /\ UNCHANGED sideVars
    /\ UNCHANGED <<driver, max_ticks, loops, ret, n, m, fuel_limit, ticks, n_times,
                   j, obs, team_alive, acc_score, agent_ids, eng, log,
                   done_calls, stalled>>

\* Engine.add_agent: the engine registers a ship and returns its id.
EngineAddAgent(e) ==
    [e EXCEPT !.n = e.n + 1, !.alive = Append(e.alive, TRUE),
              !.score = Append(e.score, 0)]

\* Game.__init__ lines 74-93: a given list must have n * m poses; without
\* one, the grid is generated, shuffled and cut to n * m.
Init_Poses ==
    /\ pc = "poses"
    /\ IF init_poses.given
       THEN /\ pc' = IF WrongLength(Len(init_poses.list), n * m)
                     THEN "value_error" ELSE "register"
            /\ UNCHANGED <<game_rng, init_poses>>
       ELSE LET g == generated(game_rng, n * m)
            IN /\ init_poses' = [init_poses EXCEPT !.list = g.value]
               /\ game_rng' = g.rng
               /\ pc' = "register"
    /\ k' = 1
    /\ UNCHANGED loggerVars
    /\ UNCHANGED <<seeds, otherVars>>
    /\ UNCHANGED <<driver, max_ticks, loops, ret, n, m, fuel_limit, ticks, n_times,
                   i, j, obs, team_alive, acc_score, agents, agent_ids, eng, log,
                   calls, done_calls, stalled>>

\* Game.__init__ lines 95-113: one add_agent per pose, in pose order; after
\* the last one the ids are sliced into teams and the empty log is allocated.
Register ==
    /\ pc = "register"
    /\ \E ok \in BOOLEAN :
         /\ calls' = Append(calls, Ev("add_agent", Engine, eng.n, k))
         /\ pc' = Propagate(ok, IF k = Len(init_poses.list) THEN "idle" ELSE "register")
         /\ IF pc' = "raised"
            THEN /\ eng' = EngineFails(eng)
                 /\ UNCHANGED <<agent_ids, log, k>>
            ELSE /\ eng' = IF ok THEN EngineAddAgent(eng)
                           ELSE EngineFails(EngineAddAgent(eng))
                 /\ agent_ids' = Append(agent_ids, eng.n)
                 /\ k' = k + 1
                 /\ log' = IF k = Len(init_poses.list)
                           THEN [t \in 1..n |->
                                  EmptyTeamLog({agent_ids'[(t - 1) * m + q] : q \in 1..m})]
                           ELSE log
    /\ UNCHANGED loggerVars
    /\ UNCHANGED sideVars
    /\ UNCHANGED <<driver, max_ticks, loops, ret, n, m, fuel_limit, ticks, n_times,
                   i, j, obs, team_alive, acc_score, agents, done_calls, stalled>>

\* ------------------------------------------------------------------ tick
NoObs == [is_alive |-> FALSE, score |-> 0, clock |-> 0]

\* The engine's answers for one id.
EngineIsAlive(e, id) == e.alive[id + 1]
EngineScore(e, id) == e.score[id + 1]

\* The engine's tick export: the clock advances, the ships in dead die, the
\* survivors score.
EngineTick(e, nt, dead) ==
    [e EXCEPT !.clock = e.clock + nt,
              !.alive = [q \in 1..e.n |-> e.alive[q] /\ (q - 1) \notin dead],
              !.score = [q \in 1..e.n |->
                            IF e.alive[q] /\ (q - 1) \notin dead
                            THEN e.score[q] + 1 ELSE e.score[q]]]

\* game.py lines 141-145: the ship series of id get one entry each.
LogShip(lg, id, pose, is_alive) ==
    [lg EXCEPT !.ships[id] = [x |-> Append(@.x, round(pose.x, 4)),
                              y |-> Append(@.y, round(pose.y, 4)),
                              heading |-> Append(@.heading, round(pose.heading, 1)),
                              alive |-> Append(@.alive, is_alive)]]

\* game.py lines 148-151: the shot series of id get one entry each.
LogShot(lg, id, shot) ==
    [lg EXCEPT !.shots[id] = [x |-> Append(@.x, round(shot.pose.x, 4)),
                              y |-> Append(@.y, round(shot.pose.y, 4)),
                              lifetime |-> Append(@.lifetime, shot.lifetime)]]

\* Line 166 skipped when make_action returned nothing.
LogActionIfAny(lg, id, action) ==
    IF action = None THEN lg ELSE [lg EXCEPT !.actions[id] = Append(@, action)]

\* game.py line 166: the action series of id gets the value make_action returned.
LogAction(lg, id, action) ==
    [lg EXCEPT !.actions[id] = Append(@, action)]

\* game.py line 161
LogScore(lg, score) ==
    [lg EXCEPT !.scores = Append(@, score)]

\* game.py line 170
LogFuel(lg, level) ==
    [lg EXCEPT !.fuel = Append(@, level)]

\* Line 167 with the agent's answer dropped.
ActionAlwaysZero(action) == 0

\* game.py line 167: action or 0
ActionOrZero(action) ==
    IF action = None \/ action = Some(0) THEN 0 ELSE action[1]

\* game.py lines 128-130 for agent i: refuel, then clear_world_state.  After the
\* last agent, line 132 resets team_alive and the observation loop starts.
Tick_Refuel ==
    /\ pc = "A"
    /\ \E o \in VoidOutcomes(agents[i]) :
         LET a1 == refuel(agents[i], fuel_limit)
             r == Guarded(a1, o, done_calls + 1)
             fueled == IF ~agents[i].trapped /\ fuel_limit # None
                       THEN <<Ev("set_fuel", i, NoId, fuel_limit[1])>>
                       ELSE <<>>
         IN /\ agents' = [agents EXCEPT ![i] = r.ag]
            /\ calls' = calls \o fueled \o <<Ev("clear_world_state", i, NoId, NoVal)>>
            /\ IF r.raised
               THEN /\ pc' = "raised"
                    /\ UNCHANGED <<i, j, team_alive, acc_score>>
               ELSE IF i = n
                    THEN /\ pc' = "B"
                         /\ i' = 1
                         /\ j' = 1
                         /\ team_alive' = [t \in 1..n |-> FALSE]
                         /\ acc_score' = 0
                    ELSE /\ i' = i + 1
                         /\ UNCHANGED <<pc, j, team_alive, acc_score>>
    /\ UNCHANGED loggerVars
    /\ UNCHANGED sideVars
    /\ UNCHANGED <<driver, max_ticks, loops, ret, n, m, fuel_limit, ticks, n_times,
                   k, obs, agent_ids, eng, log, done_calls, stalled>>

\* game.py lines 136-154 for id j of team i: the four engine reads and the log
\* entries between them.  The engine call number fail (1..4) raises; 0: none does.
Tick_Observe ==
    /\ pc = "B"
    /\ \E fail \in 0..4 :
         LET id == TeamIds(i)[j]
             reached(q) == fail = 0 \/ fail > q   \* the code after engine call q runs
             is_alive == EngineIsAlive(eng, id)
             pose == EnginePose(id, eng.clock)
             shot == EngineShot(id, eng.clock)
             score == EngineScore(eng, id)
             l2 == IF reached(2) THEN LogShip(log[i], id, pose, is_alive) ELSE log[i]
             l3 == IF reached(3) THEN LogShot(l2, id, shot) ELSE l2
             evs == <<Ev("is_alive", Engine, id, NoVal),
                      Ev("get_ship_pose", Engine, id, NoVal),
                      Ev("get_shot_pose", Engine, id, NoVal),
                      Ev("get_score", Engine, id, NoVal)>>
         IN /\ log' = [log EXCEPT ![i] = l3]
            /\ team_alive' = IF reached(2)
                             THEN [team_alive EXCEPT ![i] = @ \/ is_alive]
                             ELSE team_alive
            /\ calls' = calls \o SubSeq(evs, 1, IF fail = 0 THEN 4 ELSE fail)
            /\ pc' = Propagate(fail = 0, "Bcast")
            /\ eng' = IF fail = 0 THEN eng ELSE EngineFails(eng)
            /\ IF pc' = "Bcast"
               THEN /\ acc_score' = acc_score + score
                    /\ obs' = [is_alive |-> is_alive, score |-> score, clock |-> eng.clock]
                    /\ k' = 1
               ELSE UNCHANGED <<acc_score, obs, k>>
    /\ UNCHANGED loggerVars
    /\ UNCHANGED sideVars
    /\ UNCHANGED <<driver, max_ticks, loops, ret, n, m, fuel_limit, ticks, n_times,
                   i, j, agents, agent_ids, done_calls, stalled>>

\* Agent.update_ship, update_shot, update_score in a row during tick t, each
\* under fuel_guard.
Broadcast3(ag, os, t) ==
    LET r1 == Guarded(ag, os[1], t)
        r2 == Guarded(r1.ag, os[2], t)
        r3 == Guarded(r2.ag, os[3], t)
    IN [ag |-> IF r1.raised THEN r1.ag ELSE IF r2.raised THEN r2.ag ELSE r3.ag,
        raised |-> r1.raised \/ r2.raised \/ r3.raised]

\* game.py lines 156-161 for the agent k: the three updates about id j of team
\* i.  After the last agent the next id follows; after the team's last id its
\* accumulated score is logged; after the last team the action loop starts.
Tick_Broadcast ==
    /\ pc = "Bcast"
    /\ \E os \in [1..3 -> VoidOutcomes(agents[k])] :
         LET id == TeamIds(i)[j]
             b == Broadcast3(agents[k], os, done_calls + 1)
         IN /\ agents' = [agents EXCEPT ![k] = b.ag]
            /\ calls' = calls \o
                 <<Ev("update_ship", k, id, NoVal),
                   Ev("update_shot", k, id, NoVal),
                   Ev("update_score", k, id, obs.score)>>
            /\ IF b.raised
               THEN /\ pc' = "raised"
                    /\ UNCHANGED <<i, j, k, obs, acc_score, log>>
               ELSE IF k < n
                    THEN /\ k' = k + 1
                         /\ UNCHANGED <<pc, i, j, obs, acc_score, log>>
                    ELSE /\ k' = 1
                         /\ obs' = NoObs
                         /\ IF j < m
                            THEN /\ j' = j + 1
                                 /\ pc' = "B"
                                 /\ UNCHANGED <<i, acc_score, log>>
                            ELSE /\ log' = [log EXCEPT ![i] = LogScore(@, acc_score)]
                                 /\ acc_score' = 0
                                 /\ j' = 1
                                 /\ i' = IF i < n THEN i + 1 ELSE 1
                                 /\ pc' = IF i < n THEN "B" ELSE "C"
    /\ UNCHANGED loggerVars
    /\ UNCHANGED sideVars
    /\ UNCHANGED <<driver, max_ticks, loops, ret, n, m, fuel_limit, ticks, n_times,
                   team_alive, agent_ids, eng, done_calls, stalled>>

\* game.py lines 163-167 for id j of team i: make_action under fuel_guard, the
\* returned value is logged, and action or 0 goes to the engine's set_action,
\* which may raise.
Tick_Action ==
    /\ pc = "C"
    /\ \E o \in ActionOutcomes(agents[i]), ok \in BOOLEAN :
         LET id == TeamIds(i)[j]
             r == Guarded(agents[i], o, done_calls + 1)
             action == r.ret
         IN /\ agents' = [agents EXCEPT ![i] = r.ag]
            /\ IF r.raised
               THEN /\ pc' = "raised"
                    /\ calls' = Append(calls, Ev("make_action", i, id, ticks))
                    /\ UNCHANGED <<i, j, log, eng>>
               ELSE /\ log' = [log EXCEPT ![i] = LogAction(@, id, action)]
                    /\ calls' = calls \o
                         <<Ev("make_action", i, id, ticks),
                           Ev("set_action", Engine, id, ActionOrZero(action))>>
                    /\ eng' = IF ok THEN eng ELSE EngineFails(eng)
                    /\ pc' = Propagate(ok, IF j < m \/ i < n THEN "C" ELSE "D")
                    /\ IF pc' = "raised"
                       THEN UNCHANGED <<i, j>>
                       ELSE IF j < m
                            THEN j' = j + 1 /\ i' = i
                            ELSE /\ j' = 1
                                 /\ i' = IF i < n THEN i + 1 ELSE 1
    /\ UNCHANGED loggerVars
    /\ UNCHANGED sideVars
    /\ UNCHANGED <<driver, max_ticks, loops, ret, n, m, fuel_limit, ticks, n_times,
                   k, obs, team_alive, acc_score, agent_ids, done_calls, stalled>>

\* game.py lines 169-170: every team's fuel series gets the agent's fuel level.
Tick_LogFuel ==
    /\ pc = "D"
    /\ log' = [t \in 1..n |-> LogFuel(log[t], fuel_level(agents[t]))]
    /\ pc' = "E"
    /\ UNCHANGED loggerVars
    /\ UNCHANGED sideVars
    /\ UNCHANGED <<driver, max_ticks, loops, ret, n, m, fuel_limit, ticks, n_times,
                   i, j, k, obs, team_alive, acc_score, agents, agent_ids, eng,
                   calls, done_calls, stalled>>

\* Line 172 counting the teams instead of the live ones.
TeamsCounted(ta) == Len(ta)

\* sum(team_alive)
TeamsAlive(ta) == Cardinality({t \in DOMAIN ta : ta[t]})

\* Line 173 with the comparison off by one.
AdvancesWhileAnyAlive(n_teams_alive) == n_teams_alive >= 1

\* game.py line 173: the engine advances only while more than one team lives.
Advances(n_teams_alive) == n_teams_alive > 1

\* game.py lines 172-177: count the live teams; if the match goes on, the
\* engine's tick (which may raise) and then the tick counter; return the count.
Tick_Advance ==
    /\ pc = "E"
    /\ LET n_teams_alive == TeamsAlive(team_alive)
       IN /\ IF Advances(n_teams_alive)
             THEN \E ok \in BOOLEAN,
                     dead \in SUBSET {q \in 0..(eng.n - 1) : eng.alive[q + 1]} :
                    /\ calls' = Append(calls, Ev("tick", Engine, NoId, n_times))
                    /\ pc' = Propagate(ok, "idle")
                    /\ eng' = IF ok THEN EngineTick(eng, n_times, dead)
                              ELSE EngineFails(eng)
                    /\ ticks' = IF pc' = "idle" THEN ticks + n_times ELSE ticks
             ELSE /\ pc' = "idle"
                  /\ UNCHANGED <<eng, ticks, calls>>
          /\ IF pc' = "idle"
             THEN /\ ret' = Some(n_teams_alive)
                  /\ done_calls' = done_calls + 1
                  /\ stalled' = IF n_teams_alive <= 1 THEN stalled + 1 ELSE stalled
             ELSE UNCHANGED <<ret, done_calls, stalled>>
    /\ UNCHANGED loggerVars
    /\ UNCHANGED sideVars
    /\ UNCHANGED <<driver, max_ticks, loops, n, m, fuel_limit, n_times,
                   i, j, k, obs, team_alive, acc_score, agents, agent_ids, log>>

\* --------------------------------------------------------------- callers
Runners == {"local", "supervisor", "scenario"}
\* The n_times the caller passes to tick: the runners call tick() (game.py
\* line 127: n_times=1).
NTimes(d) == IF d = "api" THEN {1, 2} ELSE {1}
MaxTicksArgs == (-1)..MaxTicksArg

\* The bound of the runner's loop, from the max_ticks it is given:
\* game.py line 261 (max(1, args.max_ticks)), server.py lines 197-198 (values
\* below 1 are refused), service_runner.py lines 121-126 (any integer passes).
LoopBounds(d) ==
    IF d = "local" THEN {IF a < 1 THEN 1 ELSE a : a \in MaxTicksArgs}
    ELSE IF d = "supervisor" THEN {a \in MaxTicksArgs : a >= 1}
    ELSE IF d = "scenario" THEN MaxTicksArgs
    ELSE {0}

\* The fuel limit the caller hands to Game: game.py line 287 (the optional
\* flag), server.py lines 59-61 (none), service_runner.py lines 65-67 (always).
FuelLimits(d) ==
    IF d = "supervisor" THEN {None}
    ELSE IF d = "scenario" THEN {Some(MaxFuel)}
    ELSE {None, Some(MaxFuel)}

\* Entry of Game.tick(n_times).
StartTick ==
    /\ pc' = "A"
    /\ i' = 1
    /\ calls' = <<>>

\* Any caller of the Game object: tick(n_times) on a constructed game, whatever
\* the earlier calls returned; a caller passes the same n_times every time.
Api_Tick ==
    /\ pc = "idle"
    /\ driver = "api"
    /\ done_calls < MaxCalls
    /\ StartTick
    /\ UNCHANGED loggerVars
    /\ UNCHANGED sideVars
    /\ UNCHANGED <<driver, max_ticks, loops, ret, n, m, fuel_limit, ticks, n_times,
                   j, k, obs, team_alive, acc_score, agents, agent_ids, eng, log,
                   done_calls, stalled>>

\* for _ in range(max_ticks): n_teams_alive = game.tick()
\* (game.py lines 291-292, server.py lines 63-64, service_runner.py lines 69-70)
Loop_Tick ==
    /\ pc = "idle"
    /\ driver \in Runners
    /\ loops < max_ticks
    /\ IF ret = None THEN TRUE ELSE ret[1] > 1
    /\ StartTick
    /\ loops' = loops + 1
    /\ UNCHANGED loggerVars
    /\ UNCHANGED sideVars
    /\ UNCHANGED <<driver, max_ticks, ret, n, m, fuel_limit, ticks, n_times,
                   j, k, obs, team_alive, acc_score, agents, agent_ids, eng, log,
                   done_calls, stalled>>

\* if n_teams_alive <= 1: break, or the range is exhausted
\* (game.py lines 293-294, server.py lines 65-66, service_runner.py lines 71-72)
Loop_End ==
    /\ pc = "idle"
    /\ driver \in Runners
    /\ IF loops < max_ticks THEN (IF ret = None THEN FALSE ELSE ret[1] <= 1) ELSE TRUE
    /\ pc' = "finished"
    /\ UNCHANGED loggerVars
    /\ UNCHANGED sideVars
    /\ UNCHANGED <<driver, max_ticks, loops, ret, n, m, fuel_limit, ticks, n_times,
                   i, j, k, obs, team_alive, acc_score, agents, agent_ids, eng, log,
                   calls, done_calls, stalled>>

\* --------------------------------------------------------- specification
\* The parts of the program a specification leaves out stay as they are here.
SelIdle ==
    /\ agents_dir = {}
    /\ seen = {}
    /\ agent_wasmfiles = <<>>

CoordIdle ==
    /\ service = "none"
    /\ workers = 0
    /\ stopping = FALSE
    /\ futures = {}
    /\ done = {}
    /\ future = 0
    /\ fut = <<>>
    /\ rng = [seed |-> 0, drawn |-> 0]
    /\ scenario = 0

ScenIdle ==
    /\ self_agents = {}
    /\ self_round = 0
    /\ self_seed = NoSeed
    /\ max_rounds = 0
    /\ result_dir = None
    /\ notified = FALSE
    /\ found = {}
    /\ now = 0
    /\ played = <<>>
    /\ last_game = None

FileIdle ==
    /\ scenario_file = <<>>
    /\ index = 0
    /\ scenarios = <<>>
    /\ error = None

CliIdle ==
    /\ program = "none"
    /\ args = <<>>
    /\ outcome = <<>>

LoggerIdle ==
    /\ files = {}
    /\ idx = 0
    /\ saved = <<>>
    /\ existing = {}

\* Nothing of a match has happened yet.
Fresh ==
    /\ loops = 0
    /\ ret = None
    /\ ticks = 0
    /\ i = 1
    /\ j = 1
    /\ k = 1
    /\ obs = NoObs
    /\ team_alive = <<>>
    /\ acc_score = 0
    /\ agents = <<>>
    /\ agent_ids = <<>>
    /\ eng = EngineNew
    /\ log = <<>>
    /\ calls = <<>>
    /\ done_calls = 0
    /\ stalled = 0
    /\ seeds = <<>>

\* A Game(seed=0) that generates its poses.
PlainStart ==
    /\ game_rng = Random(0)
    /\ init_poses = NotGiven

GameShape(ds) ==
    /\ driver \in ds
    /\ max_ticks \in LoopBounds(driver)
    /\ fuel_limit \in FuelLimits(driver)
    /\ n \in 1..MaxTeams
    /\ m \in 1..MaxMult
    /\ n * m <= MaxIds
    /\ n_times \in NTimes(driver)
    /\ pc = "new"
    /\ Fresh

GameInit(ds) == GameShape(ds) /\ PlainStart

Construct ==
    \/ Construct_Engine
    \/ Agent_Module
    \/ Agent_Init
    \/ Agent_Config
    \/ Init_Poses
    \/ Register

Tick ==
    \/ Tick_Refuel
    \/ Tick_Observe
    \/ Tick_Broadcast
    \/ Tick_Action
    \/ Tick_LogFuel
    \/ Tick_Advance

\* A Game in the hands of any caller.
Init ==
    /\ GameInit({"api"})
    /\ LoggerIdle
    /\ SelIdle /\ CoordIdle /\ ScenIdle /\ FileIdle /\ CliIdle

Next ==
    \/ Construct
    \/ Api_Tick
    \/ Tick

Spec == Init /\ [][Next]_vars

\* A Game of any seed and any init_poses argument, without a fuel limit,
\* ticked once per call.
\* The second seed's first output is 2^32 - 1.
MasterSeeds == {0, 947686084}
PoseArgs == {NotGiven} \cup {Given(len) : len \in 0..(MaxIds + 1)}

InitConstruct ==
    /\ GameShape({"api"})
    /\ fuel_limit = None
    /\ n_times = 1
    /\ game_rng \in {Random(s) : s \in MasterSeeds}
    /\ init_poses \in PoseArgs
    /\ LoggerIdle
    /\ SelIdle /\ CoordIdle /\ ScenIdle /\ FileIdle /\ CliIdle

SpecConstruct == InitConstruct /\ [][Next]_vars

\* A Game in the match loop of one of the three runners.
InitRunner ==
    /\ GameInit(Runners)
    /\ LoggerIdle
    /\ SelIdle /\ CoordIdle /\ ScenIdle /\ FileIdle /\ CliIdle

NextRunner ==
    \/ Construct
    \/ Loop_Tick
    \/ Loop_End
    \/ Tick

SpecRunner == InitRunner /\ [][NextRunner]_vars

\* ------------------------------------------------------------ the Logger
\* A directory entry's name, cut where the pattern of server.py line 19 cuts
\* it: the text before a run of decimal digits, the digits, the text after.
FileName(prefix, digits, suffix) ==
    [prefix |-> prefix, digits |-> digits, suffix |-> suffix]

\* Names a log directory may hold when a Logger is created: logs (one with a
\* leading zero), and names the pattern or the glob must leave out.
DirNames ==
    {FileName("scubywasm-log_", <<0>>, ".json"),
     FileName("scubywasm-log_", <<7>>, ".json"),
     FileName("scubywasm-log_", <<0, 7>>, ".json"),
     FileName("scubywasm-log_", <<>>, ".json"),
     FileName("scubywasm-log_", <<9>>, ".json.bak"),
     FileName("scubywasm-log_", <<9>>, ".bak.json"),
     FileName("old-scubywasm-log_", <<9>>, ".json"),
     FileName("scubywasm-log_", <<9>>, ".txt")}

\* log_dir.glob("*.json"): the names that end in .json
glob_json(name) == name.suffix \in {".json", ".bak.json"}

\* re.compile(r"^scubywasm-log_(\d+)\.json$").match(name)
pattern_match(name) ==
    /\ name.prefix = "scubywasm-log_"
    /\ Len(name.digits) >= 1
    /\ name.suffix = ".json"

\* Python int() of a string of decimal digits
RECURSIVE int(_)
int(ds) ==
    IF Len(ds) = 0 THEN 0
    ELSE 10 * int(SubSeq(ds, 1, Len(ds) - 1)) + ds[Len(ds)]

\* Python str() of a natural number (what the f-string of line 29 inserts)
RECURSIVE str(_)
str(v) == IF v < 10 THEN <<v>> ELSE Append(str(v \div 10), v % 10)

\* f"scubywasm-log_{idx}.json"
LogFile(ix) == FileName("scubywasm-log_", str(ix), ".json")

\* server.py line 20
Logs(dir) == {f \in dir : glob_json(f) /\ pattern_match(f)}

\* The first index taken as the number of logs found.
StartIndexByCount(logs) == Cardinality(logs)

\* server.py lines 21-26: 0 without logs, else the largest index plus one.
StartIndex(logs) ==
    IF logs = {} THEN 0
    ELSE LET largest == CHOOSE f \in logs :
                           \A g \in logs : int(g.digits) <= int(f.digits)
         IN int(largest.digits) + 1

\* Logger.__init__ on the directory as it is.
Logger_Init ==
    /\ pc = "logger_new"
    /\ existing' = Logs(files)
    /\ idx' = StartIndex(Logs(files))
    /\ saved' = <<>>
    /\ pc' = "logger"
    /\ UNCHANGED sideVars
    /\ UNCHANGED <<files, driver, max_ticks, loops, ret, n, m, fuel_limit, ticks,
                   n_times, i, j, k, obs, team_alive, acc_score, agents, agent_ids,
                   eng, log, calls, done_calls, stalled>>

\* Logger.save_log: the file of the current index is written, then the index
\* moves on.
Save_Log ==
    /\ pc = "logger"
    /\ Len(saved) < MaxSaves
    /\ idx < MaxIndex
    /\ files' = files \cup {LogFile(idx)}
    /\ saved' = Append(saved, LogFile(idx))
    /\ idx' = idx + 1
    /\ UNCHANGED sideVars
    /\ UNCHANGED <<existing, driver, max_ticks, loops, ret, pc, n, m, fuel_limit,
                   ticks, n_times, i, j, k, obs, team_alive, acc_score, agents,
                   agent_ids, eng, log, calls, done_calls, stalled>>

\* Another Logger is created on the same directory: one per start of the
\* supervisor (server.py line 210), one per round of a scenario
\* (service_runner.py line 63).
Logger_Restart ==
    /\ pc = "logger"
    /\ saved # <<>>
    /\ pc' = "logger_new"
    /\ UNCHANGED loggerVars
    /\ UNCHANGED sideVars
    /\ UNCHANGED <<driver, max_ticks, loops, ret, n, m, fuel_limit, ticks,
                   n_times, i, j, k, obs, team_alive, acc_score, agents, agent_ids,
                   eng, log, calls, done_calls, stalled>>

InitLogger ==
    /\ driver = "supervisor"
    /\ max_ticks = 1
    /\ fuel_limit = None
    /\ n = 1
    /\ m = 1
    /\ n_times = 1
    /\ Fresh
    /\ PlainStart
    /\ pc = "logger_new"
    /\ files \in SUBSET DirNames
    /\ idx = 0
    /\ saved = <<>>
    /\ existing = {}
    /\ SelIdle /\ CoordIdle /\ ScenIdle /\ FileIdle /\ CliIdle

NextLogger ==
    \/ Logger_Init
    \/ Save_Log
    \/ Logger_Restart

SpecLogger == InitLogger /\ [][NextLogger]_vars

\* ------------------------------------------- the supervisor's agent files
\* Directory names are strings, written as sequences of character codes;
\* Python orders strings by the first code that differs, a proper prefix first.
str_lt(a, b) ==
    \E q \in 1..(Len(a) + 1) :
       /\ q <= Len(b)
       /\ \A r \in 1..(q - 1) : a[r] = b[r]
       /\ (q = Len(a) + 1 \/ a[q] < b[q])

\* Names of the entries AGENTS_DIR may have: "a", "ab", "b".
EntryNames == {<<1>>, <<1, 2>>, <<2>>}

\* Files a team directory may hold: three versions, one of them also written
\* with a leading zero, and names the pattern or the glob must leave out.
TeamFiles ==
    {FileName("agent-v", <<3>>, ".wasm"),
     FileName("agent-v", <<9>>, ".wasm"),
     FileName("agent-v", <<1, 2>>, ".wasm"),
     FileName("agent-v", <<0, 1, 2>>, ".wasm"),
     FileName("agent-v", <<>>, ".wasm"),
     FileName("old-agent-v", <<9, 9>>, ".wasm"),
     FileName("agent-v", <<9, 9>>, ".wasm.bak")}

\* An entry of AGENTS_DIR: a plain file, or a directory with its files.
Entry(name, is_dir, fs) == [name |-> name, is_dir |-> is_dir, files |-> fs]

\* The files "a" may hold.
FewFiles ==
    {FileName("agent-v", <<3>>, ".wasm"),
     FileName("agent-v", <<>>, ".wasm"),
     FileName("agent-v", <<9, 9>>, ".wasm.bak")}

\* What an entry may be: "b" a plain file or a directory with any of
\* TeamFiles, "a" the same with FewFiles, "ab" a plain file, an empty
\* directory or a directory with one agent.
EntriesOf(name) ==
    IF name = <<1, 2>>
    THEN {Entry(name, FALSE, {}), Entry(name, TRUE, {}),
          Entry(name, TRUE, {FileName("agent-v", <<3>>, ".wasm")})}
    ELSE {Entry(name, FALSE, {})} \cup
         {Entry(name, TRUE, fs) : fs \in SUBSET (IF name = <<1>> THEN FewFiles ELSE TeamFiles)}

\* An entry of that name, or none.
MaybeEntry(name) == {{}} \cup {{e} : e \in EntriesOf(name)}

\* d.glob("*.wasm")
glob_wasm(name) == name.suffix = ".wasm"

\* re.compile(r"^agent-v(\d+)\.wasm$").match(p.name)
agent_pattern_match(name) ==
    /\ name.prefix = "agent-v"
    /\ Len(name.digits) >= 1
    /\ name.suffix = ".wasm"

\* server.py lines 45-49: the (version, path) pairs of a team directory
Matches(d) ==
    {[version |-> int(f.digits), path |-> [parent |-> d.name, file |-> f]] :
        f \in {g \in d.files : glob_wasm(g) /\ agent_pattern_match(g)}}

\* Tuple order of (int, Path): the version first, then the path's text; two
\* matching names of one directory differ in their digits only.
pair_lt(a, b) ==
    \/ a.version < b.version
    \/ a.version = b.version /\ str_lt(a.path.file.digits, b.path.file.digits)

\* The largest pair taken by the text of the file name.
max_by_name(matches) ==
    CHOOSE a \in matches :
       \A b \in matches : b = a \/ str_lt(b.path.file.digits, a.path.file.digits)

\* max(matches), line 52
max_pair(matches) ==
    CHOOSE a \in matches : \A b \in matches : b = a \/ pair_lt(b, a)

\* list.sort(key=lambda p: p.parent.name), line 54: a stable insertion
RECURSIVE insert_by_parent(_, _)
insert_by_parent(x, sorted) ==
    IF sorted = <<>> THEN <<x>>
    ELSE IF str_lt(x.parent, Head(sorted).parent)
         THEN <<x>> \o sorted
         ELSE <<Head(sorted)>> \o insert_by_parent(x, Tail(sorted))

RECURSIVE sort_by_parent(_)
sort_by_parent(sq) ==
    IF sq = <<>> THEN <<>>
    ELSE insert_by_parent(sq[Len(sq)], sort_by_parent(SubSeq(sq, 1, Len(sq) - 1)))

\* server.py lines 43-52 for the entry iterdir() yields next, whichever it is.
Select_Entry ==
    /\ pc = "sel_iter"
    /\ \E d \in agents_dir :
          /\ d.name \notin seen
          /\ seen' = seen \cup {d.name}
          /\ agent_wasmfiles' =
                IF d.is_dir /\ Matches(d) # {}
                THEN Append(agent_wasmfiles, max_pair(Matches(d)).path)
                ELSE agent_wasmfiles
    /\ UNCHANGED <<pc, agents_dir>>
    /\ UNCHANGED <<matchVars, loggerVars, coordVars, scenVars, fileVars, cliVars>>

\* server.py lines 54-61: the sort; without files the empty result is returned,
\* else the files are read and the Game is built from them in this order.
Select_Sort ==
    /\ pc = "sel_iter"
    /\ seen = {d.name : d \in agents_dir}
    /\ agent_wasmfiles' = sort_by_parent(agent_wasmfiles)
    /\ pc' = IF agent_wasmfiles = <<>> THEN "sel_empty" ELSE "sel_game"
    /\ UNCHANGED <<agents_dir, seen>>
    /\ UNCHANGED <<matchVars, loggerVars, coordVars, scenVars, fileVars, cliVars>>

InitSelect ==
    /\ driver = "supervisor"
    /\ max_ticks = 1
    /\ fuel_limit = None
    /\ n = 1
    /\ m = 1
    /\ n_times = 1
    /\ Fresh
    /\ PlainStart
    /\ pc = "sel_iter"
    /\ \E ea \in MaybeEntry(<<1>>), eab \in MaybeEntry(<<1, 2>>), eb \in MaybeEntry(<<2>>) :
          agents_dir = ea \cup eab \cup eb
    /\ seen = {}
    /\ agent_wasmfiles = <<>>
    /\ LoggerIdle /\ CoordIdle /\ ScenIdle /\ FileIdle /\ CliIdle

NextSelect ==
    \/ Select_Entry
    \/ Select_Sort

SpecSelect == InitSelect /\ [][NextSelect]_vars

\* ----------------------------------------------------- the command lines
\* The flag values tried: around each bound, and the defaults.
FlagValues ==
    [files_ok : BOOLEAN,
     workers : {0, 1},
     multiplicity : {0, 1},
     fuel_limit : {None, Some(FuelFloor - 1), Some(FuelFloor)},
     max_ticks : {0 - 1, 0, 1, 2},
     memory_limit : {0 - 1, 0, 1, 2 * PageBytes - 1, 2 * PageBytes, DefaultMemory}]

\* How main went on: the exit status if it has exited, whether it got as far as
\* building a Game (local) or submitting matches (supervisor), and with what.
Went(exit, built, game) == [exit |-> exit, built |-> built, game |-> game]

NoGame == [multiplicity |-> 0, fuel_limit |-> None, memory_limit |-> None, max_ticks |-> 0]

\* parser.error(...): argparse prints the message and exits with status 2.
parser_error == Went(Some(UsageError), FALSE, NoGame)

\* An exception nobody catches: the interpreter prints it and exits with 1.
uncaught == Went(Some(1), FALSE, NoGame)

\* Python's a < b for an optional int a and an int b: None is not ordered.
py_lt(a, b) == IF a = None THEN "TypeError" ELSE IF a[1] < b THEN "True" ELSE "False"

\* game.main lines 254-278: the checks in their order, and what the Game and
\* the loop will be given.
Local_Validate ==
    /\ pc = "cli_start"
    /\ program = "local"
    /\ LET mt == IF args.max_ticks < 1 THEN 1 ELSE args.max_ticks
           memory_limit == IF args.memory_limit <= 0 THEN None
                           ELSE Some(args.memory_limit)
           bad == \/ ~args.files_ok
                  \/ args.multiplicity < 1
                  \/ (args.fuel_limit # None /\ args.fuel_limit[1] < FuelFloor)
                  \/ (args.memory_limit > 0 /\ args.memory_limit < 2 * PageBytes)
       IN IF bad
          THEN /\ outcome' = parser_error
               /\ pc' = "cli_exit"
          ELSE /\ outcome' = Went(None, FALSE,
                                  [multiplicity |-> args.multiplicity,
                                   fuel_limit |-> args.fuel_limit,
                                   memory_limit |-> memory_limit,
                                   max_ticks |-> mt])
               /\ pc' = "cli_game"
    /\ UNCHANGED <<program, args>>
    /\ UNCHANGED <<matchVars, loggerVars, selVars, coordVars, scenVars, fileVars>>

\* game.main lines 280-304: the Game is built, the loop runs, the log is
\* written, return 0.
Local_Run ==
    /\ pc = "cli_game"
    /\ program = "local"
    /\ outcome' = Went(Some(0), TRUE, outcome.game)
    /\ pc' = "cli_exit"
    /\ UNCHANGED <<program, args>>
    /\ UNCHANGED <<matchVars, loggerVars, selVars, coordVars, scenVars, fileVars>>

\* server.main lines 182-198: the checks in their order.
Server_Validate ==
    /\ pc = "cli_start"
    /\ program = "supervisor"
    /\ LET fuel_low == py_lt(args.fuel_limit, FuelFloor)
           went == IF ~args.files_ok THEN parser_error
                   ELSE IF args.workers < 1 THEN parser_error
                   ELSE IF args.multiplicity < 1 THEN parser_error
                   ELSE IF fuel_low = "TypeError" THEN uncaught
                   ELSE IF fuel_low = "True" THEN parser_error
                   ELSE IF args.max_ticks < 1 THEN parser_error
                   ELSE Went(None, FALSE,
                             [multiplicity |-> args.multiplicity,
                              fuel_limit |-> args.fuel_limit,
                              memory_limit |-> None,
                              max_ticks |-> args.max_ticks])
       IN /\ outcome' = went
          /\ pc' = IF went.exit = None THEN "cli_pool" ELSE "cli_exit"
    /\ UNCHANGED <<program, args>>
    /\ UNCHANGED <<matchVars, loggerVars, selVars, coordVars, scenVars, fileVars>>

\* server.main lines 200-226: the pool is made and the first matches are
\* submitted.
Server_Start ==
    /\ pc = "cli_pool"
    /\ program = "supervisor"
    /\ outcome' = Went(None, TRUE, outcome.game)
    /\ pc' = "cli_serving"
    /\ UNCHANGED <<program, args>>
    /\ UNCHANGED <<matchVars, loggerVars, selVars, coordVars, scenVars, fileVars>>

InitCli ==
    /\ driver = "local"
    /\ max_ticks = 1
    /\ fuel_limit = None
    /\ n = 1
    /\ m = 1
    /\ n_times = 1
    /\ Fresh
    /\ PlainStart
    /\ pc = "cli_start"
    /\ program \in {"local", "supervisor"}
    /\ args \in FlagValues
    /\ program = "local" => args.workers = 1
    /\ program = "supervisor" => args.memory_limit = DefaultMemory
    /\ outcome = Went(None, FALSE, NoGame)
    /\ LoggerIdle /\ SelIdle /\ CoordIdle /\ ScenIdle /\ FileIdle

NextCli ==
    \/ Local_Validate
    \/ Local_Run
    \/ Server_Validate
    \/ Server_Start

SpecCli == InitCli /\ [][NextCli]_vars

\* ----------------------------------------------------- the scenario file
\* A JSON value of the file is modelled by its kind: absent (no such key),
\* a string, an integer, or a boolean (in Python bool is a subclass of int).
Kinds == {"absent", "str", "int", "bool"}

\* isinstance(value, expected_type)
isinstance(kind, expected_type) ==
    IF expected_type = "str" THEN kind = "str" ELSE kind \in {"int", "bool"}

SCENARIO_KEYS ==
    <<[key |-> "name", type |-> "str"],
      [key |-> "multiplicity", type |-> "int"],
      [key |-> "max_ticks", type |-> "int"],
      [key |-> "fuel_limit", type |-> "int"]>>

\* The properties the documentation of the file lists for an element.
Properties == {"name", "multiplicity", "max_ticks", "fuel_limit", "max_rounds"}

\* An element of the array: an object with some of the properties, or
\* something that is not an object.
Elements ==
    {[is_dict |-> TRUE, at |-> f] : f \in [Properties -> Kinds]}
      \cup {[is_dict |-> FALSE, at |-> [q \in Properties |-> "absent"]]}

GoodElement ==
    [is_dict |-> TRUE,
     at |-> [q \in Properties |-> IF q = "name" THEN "str" ELSE "int"]]

\* The arrays tried: none, one element of any shape, or a good one followed
\* by one of any shape.
ScenarioFiles ==
    {<<>>} \cup {<<e>> : e \in Elements} \cup {<<GoodElement, e>> : e \in Elements}

Raised(kind, what) == Some([kind |-> kind, what |-> what])

\* _validate_scenario: None, or the exception it raises.
validate_scenario(scen, at_index) ==
    LET missing == {q \in 1..Len(SCENARIO_KEYS) : scen.at[SCENARIO_KEYS[q].key] = "absent"}
        illtyped == {q \in 2..Len(SCENARIO_KEYS) :
                        ~isinstance(scen.at[SCENARIO_KEYS[q].key], SCENARIO_KEYS[q].type)}
        first(S) == CHOOSE q \in S : \A r \in S : q <= r
    IN IF ~scen.is_dict THEN Raised("ValueError", "object")
       ELSE IF missing # {} THEN Raised("ValueError", "missing")
       ELSE IF ~isinstance(scen.at["name"], "str") THEN Raised("ValueError", "name")
       ELSE IF illtyped # {} THEN Raised("ValueError", SCENARIO_KEYS[first(illtyped)].key)
       ELSE None

\* random.randint(0, 2**32 - 1) of the module's own generator, which is
\* seeded from the system: any 32-bit value. The values tried.
ScenarioSeeds == {Word(0, 0), Word(HalfWord - 1, HalfWord - 1)}

\* Scenario.__init__: the fields it assigns, drawn being what line 27 drew,
\* and how the call ends: no statement of it raises.
ScenarioNew(name, mult, mt, fl, mr, drawn) ==
    [self |-> [name |-> name, multiplicity |-> mult, max_ticks |-> mt,
               fuel_limit |-> fl, max_rounds |-> mr, agents |-> {},
               round |-> 0, seed |-> drawn, notified |-> FALSE,
               result_dir |-> None],
     raised |-> None]

\* The head of the for loop of _read_scenarios, and its return.
Read_Next ==
    /\ pc = "rs_iter"
    /\ IF index < Len(scenario_file)
       THEN /\ index' = index + 1
            /\ pc' = "rs_validate"
       ELSE /\ pc' = "rs_return"
            /\ UNCHANGED index
    /\ UNCHANGED <<scenario_file, scenarios, error>>
    /\ UNCHANGED <<matchVars, loggerVars, selVars, coordVars, scenVars, cliVars>>

\* _validate_scenario(scenario, index) for the element at hand.
Read_Validate ==
    /\ pc = "rs_validate"
    /\ LET v == validate_scenario(scenario_file[index], index - 1)
       IN /\ error' = v
          /\ pc' = IF v = None THEN "rs_create" ELSE "rs_raised"
    /\ UNCHANGED <<scenario_file, index, scenarios>>
    /\ UNCHANGED <<matchVars, loggerVars, selVars, coordVars, scenVars, cliVars>>

\* scenarios[name] = Scenario(name, multiplicity, max_ticks, fuel_limit,
\* max_rounds): the five subscripts are evaluated first, then the constructor
\* runs, then the entry is stored.
Read_Create ==
    /\ pc = "rs_create"
    /\ \E drawn \in ScenarioSeeds :
       LET e == scenario_file[index].at
           made == ScenarioNew(e["name"], e["multiplicity"], e["max_ticks"],
                               e["fuel_limit"], e["max_rounds"], drawn)
       IN IF e["max_rounds"] = "absent"
          THEN /\ error' = Raised("KeyError", "max_rounds")
               /\ pc' = "rs_raised"
               /\ UNCHANGED scenarios
          ELSE IF made.raised # None
          THEN /\ error' = made.raised
               /\ pc' = "rs_raised"
               /\ UNCHANGED scenarios
          ELSE /\ scenarios' = Append(scenarios, made.self)
               /\ pc' = "rs_iter"
               /\ UNCHANGED error
    /\ UNCHANGED <<scenario_file, index>>
    /\ UNCHANGED <<matchVars, loggerVars, selVars, coordVars, scenVars, cliVars>>

\* return scenarios; main then builds the pool with max_workers=len(scenarios),
\* which ProcessPoolExecutor refuses for 0.
Read_Return ==
    /\ pc = "rs_return"
    /\ IF Len(scenarios) = 0
       THEN /\ error' = Raised("ValueError", "max_workers")
            /\ pc' = "rs_raised"
       ELSE /\ pc' = "rs_pool"
            /\ UNCHANGED error
    /\ UNCHANGED <<scenario_file, index, scenarios>>
    /\ UNCHANGED <<matchVars, loggerVars, selVars, coordVars, scenVars, cliVars>>

InitScenFile ==
    /\ driver = "service"
    /\ max_ticks = 1
    /\ fuel_limit = None
    /\ n = 1
    /\ m = 1
    /\ n_times = 1
    /\ Fresh
    /\ PlainStart
    /\ pc = "rs_iter"
    /\ scenario_file \in ScenarioFiles
    /\ index = 0
    /\ scenarios = <<>>
    /\ error = None
    /\ LoggerIdle /\ SelIdle /\ CoordIdle /\ ScenIdle /\ CliIdle

NextScenFile ==
    \/ Read_Next
    \/ Read_Validate
    \/ Read_Create
    \/ Read_Return

SpecScenFile == InitScenFile /\ [][NextScenFile]_vars

\* ----------------------------------------------------- a scenario's round
\* An agent file below /home/<user>/agents/<name>/, with its stat().
AgentFiles ==
    [user : {1, 2}, name : {1, 2}, mtime : {1, 2}, size : {1, 2}]

\* The file systems tried: at most two agent files.
HomeDirs == {fs \in SUBSET AgentFiles : Cardinality(fs) <= 2}

\* gather_agents: per agent name the file with the greatest mtime; among files
\* of equal mtime the one the directory listing yields first, which is any of
\* them. A lineup is the dict as its set of items.
Lineups(fs) ==
    LET names == {f.name : f \in fs}
        newest(nm) == {f \in fs : f.name = nm /\ \A g \in fs : g.name = nm => g.mtime <= f.mtime}
    IN {l \in SUBSET fs :
          /\ \A nm \in names : \E f \in l : f.name = nm /\ f \in newest(nm)
          /\ \A f, g \in l : f.name = g.name => f = g}

keys(l) == {f.name : f \in l}

need_restart_by_name(self, lineup) == keys(lineup) # keys(self)

\* Scenario.need_restart(agents), self being the snapshot self.agents and
\* lineup the argument.
need_restart(self, lineup) ==
    \/ keys(lineup) # keys(self)
    \/ \E f \in lineup : \E old \in self :
          old.name = f.name /\ (f.mtime # old.mtime \/ f.size # old.size)

\* run, line 80: the lineup is discovered. The clock has moved on since the
\* round before, which slept or ran a match.
Run_Gather ==
    /\ pc = "run_gather"
    /\ now < MaxNow
    /\ now' = now + 1
    /\ \E fs \in HomeDirs : found' \in Lineups(fs)
    /\ played' = None
    /\ pc' = "run_decide"
    /\ UNCHANGED <<self_agents, self_round, self_seed, max_rounds, result_dir, notified,
                   last_game>>
    /\ UNCHANGED <<matchVars, loggerVars, selVars, coordVars, fileVars, cliVars>>

\* run, lines 81-100: no lineup, restart, or the round limit.
Run_Decide ==
    /\ pc = "run_decide"
    /\ IF found = {}
       THEN /\ self_round' = 0
            /\ self_agents' = {}
            /\ notified' = TRUE
            /\ pc' = "run_return"
            /\ UNCHANGED result_dir
       ELSE IF need_restart(self_agents, found) \/ result_dir = None
       THEN /\ self_round' = 0
            /\ self_agents' = found
            /\ result_dir' = Some(now)
            /\ pc' = "run_game"
            /\ UNCHANGED notified
       ELSE IF self_round >= max_rounds
       THEN /\ notified' = TRUE
            /\ pc' = "run_return"
            /\ UNCHANGED <<self_agents, self_round, result_dir>>
       ELSE /\ pc' = "run_game"
            /\ UNCHANGED <<self_agents, self_round, result_dir, notified>>
    /\ UNCHANGED <<self_seed, max_rounds, found, now, played, last_game>>
    /\ UNCHANGED <<matchVars, loggerVars, selVars, coordVars, fileVars, cliVars>>

\* The seed moves on with the round.
game_args_by_round(self) ==
    [agent_wasms |-> self.agents,
     seed |-> Word(self.seed.hi, self.seed.lo + self.round)]

\* run_game, lines 54-67: what Game(...) is given of the scenario: the files
\* of the snapshot (as copied into the results directory) and the seed.
game_args(self) == [agent_wasms |-> self.agents, seed |-> self.seed]

\* run, lines 101-104: the match is run on the snapshot, in the results
\* directory; run_game may raise, and then the round is not counted.
Run_Game ==
    /\ pc = "run_game"
    /\ notified' = FALSE
    /\ played' = Some([agents |-> self_agents, dir |-> result_dir, round |-> self_round,
                       lineup |-> found,
                       args |-> game_args([agents |-> self_agents, seed |-> self_seed,
                                           round |-> self_round])])
    /\ last_game' = Some([lineup |-> found, args |-> played'[1].args])
    /\ \E ok \in BOOLEAN :
          IF ok THEN /\ self_round' = self_round + 1
                     /\ pc' = "run_return"
                ELSE /\ pc' = "run_raised"
                     /\ UNCHANGED self_round
    /\ UNCHANGED <<self_agents, self_seed, max_rounds, result_dir, found, now>>
    /\ UNCHANGED <<matchVars, loggerVars, selVars, coordVars, fileVars, cliVars>>

\* return self; the coordinator submits the scenario's next round.
Run_Return ==
    /\ pc = "run_return"
    /\ pc' = "run_gather"
    /\ UNCHANGED scenVars
    /\ UNCHANGED <<matchVars, loggerVars, selVars, coordVars, fileVars, cliVars>>

\* The object as Scenario.__init__ lines 20-28 leave its fields.
InitScenario ==
    /\ driver = "service"
    /\ max_ticks = 1
    /\ fuel_limit = None
    /\ n = 1
    /\ m = 1
    /\ n_times = 1
    /\ Fresh
    /\ PlainStart
    /\ pc = "run_gather"
    /\ max_rounds \in 0..MaxRounds
    /\ \E drawn \in ScenarioSeeds :
       LET made == ScenarioNew("str", 1, 1, 1, max_rounds, drawn).self
       IN /\ self_agents = made.agents
          /\ self_round = made.round
          /\ self_seed = made.seed
          /\ notified = made.notified
          /\ result_dir = made.result_dir
    /\ found = {}
    /\ now = 0
    /\ played = None
    /\ last_game = None
    /\ LoggerIdle /\ SelIdle /\ CoordIdle /\ FileIdle /\ CliIdle

NextScenario ==
    \/ Run_Gather
    \/ Run_Decide
    \/ Run_Game
    \/ Run_Return

SpecScenario == InitScenario /\ [][NextScenario]_vars

\* ----------------------------------------------------- the coordinators
new_seed_reseeded(r) == [value |-> getrandbits(Random(r.seed)).value, rng |-> r]

\* _new_seed(rng)
new_seed(r) == getrandbits(r)

SessionSeeds == {0, 42}

\* The keyword arguments main passes to _run_game, and the ones it takes.
SubmitKwargs ==
    {"engine_wasm", "agents_dir", "agent_multiplicity", "max_ticks", "agent_fuel_limit", "seed"}

RunGameParams == {"engine_wasm", "agents_dir", "agent_multiplicity", "seed", "max_ticks"}

\* How a submitted call can end: with a log ("result"), with the empty dict
\* when no agent file was found ("empty"), or with an exception ("failed").
\* A call with a keyword the function does not take raises TypeError.
WorkerOutcomes(svc) ==
    IF svc = "supervisor"
    THEN IF SubmitKwargs \subseteq RunGameParams THEN {"result", "empty", "failed"}
         ELSE {"failed"}
    ELSE {"result", "failed"}

\* ex.submit(...): a new future, with what it was given.
Submitted(seed, scen, flag) ==
    [seed |-> seed, scenario |-> scen, state |-> "running", after_stop |-> flag,
     at_stop |-> FALSE, collected |-> FALSE, saved |-> FALSE,
     kwargs |-> IF scen = 0 THEN SubmitKwargs ELSE {}]

\* The call ex.submit of either coordinator: the supervisor draws the seed of
\* the match; the service submits the run of the scenario its variable names.
Submit(scen) ==
    IF service = "supervisor"
    THEN LET drawn == new_seed(rng)
         IN /\ rng' = drawn.rng
            /\ fut' = Append(fut, Submitted(drawn.value, 0, stopping))
            /\ futures' = futures \cup {Len(fut) + 1}
    ELSE /\ fut' = Append(fut, Submitted(NoSeed, scen, stopping))
         /\ futures' = futures \cup {Len(fut) + 1}
         /\ UNCHANGED rng

\* The submissions before the loop: range(args.workers), or one per scenario.
Coord_InitSubmit ==
    /\ pc = "c_init"
    /\ IF Len(fut) < workers
       THEN /\ scenario' = IF service = "service" THEN Len(fut) + 1 ELSE scenario
            /\ Submit(Len(fut) + 1)
            /\ UNCHANGED pc
       ELSE /\ pc' = "c_while"
            /\ UNCHANGED <<scenario, rng, fut, futures>>
    /\ UNCHANGED <<service, workers, stopping, done, future>>
    /\ UNCHANGED <<matchVars, loggerVars, selVars, scenVars, fileVars, cliVars>>

\* while futures:
Coord_While ==
    /\ pc = "c_while"
    /\ pc' = IF futures = {} THEN "c_exit" ELSE "c_wait"
    /\ UNCHANGED coordVars
    /\ UNCHANGED <<matchVars, loggerVars, selVars, scenVars, fileVars, cliVars>>

\* cf.wait(futures, FIRST_COMPLETED) returns once a future has completed, with
\* the completed ones; futures = pending.
Coord_Wait ==
    /\ pc = "c_wait"
    /\ LET finished == {f \in futures : fut[f].state # "running"}
       IN /\ finished # {}
          /\ done' = finished
          /\ futures' = futures \ finished
    /\ pc' = "c_for"
    /\ UNCHANGED <<service, workers, stopping, future, fut, rng, scenario>>
    /\ UNCHANGED <<matchVars, loggerVars, selVars, scenVars, fileVars, cliVars>>

\* for future in done: a set is iterated in any order.
Coord_For ==
    /\ pc = "c_for"
    /\ IF done = {}
       THEN /\ pc' = "c_while"
            /\ future' = 0
            /\ UNCHANGED done
       ELSE \E f \in done :
               /\ future' = f
               /\ done' = done \ {f}
               /\ pc' = "c_result"
    /\ UNCHANGED <<service, workers, stopping, futures, fut, rng, scenario>>
    /\ UNCHANGED <<matchVars, loggerVars, selVars, scenVars, fileVars, cliVars>>

\* The try statement: future.result(), and in the supervisor save_log for a
\* non-empty result and a warning for an empty one; in the service the result
\* is bound to the variable scenario. An exception is printed, and then the
\* variable keeps the value it had.
Coord_Result ==
    /\ pc = "c_result"
    /\ LET state == fut[future].state
       IN /\ fut' = [fut EXCEPT ![future].collected = TRUE,
                                ![future].saved = (service = "supervisor" /\ state = "result")]
          /\ scenario' = IF service = "service" /\ state # "failed"
                         THEN fut[future].scenario ELSE scenario
    /\ pc' = "c_check"
    /\ UNCHANGED <<service, workers, stopping, futures, done, future, rng>>
    /\ UNCHANGED <<matchVars, loggerVars, selVars, scenVars, fileVars, cliVars>>

ResubmitAlways(flag) == TRUE

\* if not stopping:
Resubmit(flag) == ~flag

\* The flag is read. A run of the model ends here once MaxSubmits futures
\* were made and another would be.
Coord_Check ==
    /\ pc = "c_check"
    /\ Resubmit(stopping) => Len(fut) < MaxSubmits
    /\ pc' = IF Resubmit(stopping) THEN "c_submit" ELSE "c_for"
    /\ UNCHANGED coordVars
    /\ UNCHANGED <<matchVars, loggerVars, selVars, scenVars, fileVars, cliVars>>

\* futures.add(ex.submit(...))
Coord_Submit ==
    /\ pc = "c_submit"
    /\ Submit(scenario)
    /\ pc' = "c_for"
    /\ UNCHANGED <<service, workers, stopping, done, future, scenario>>
    /\ UNCHANGED <<matchVars, loggerVars, selVars, scenVars, fileVars, cliVars>>

\* SIGINT or SIGTERM reaches the coordinator: the handler runs between any
\* two steps of main, once installed, and sets the flag.
Signal ==
    /\ pc \in {"c_init", "c_while", "c_wait", "c_for", "c_result", "c_check", "c_submit"}
    /\ stopping' = TRUE
    /\ fut' = IF stopping THEN fut
              ELSE [f \in 1..Len(fut) |-> [fut[f] EXCEPT !.at_stop = ~fut[f].collected]]
    /\ UNCHANGED <<service, workers, futures, done, future, rng, scenario>>
    /\ UNCHANGED pc
    /\ UNCHANGED <<matchVars, loggerVars, selVars, scenVars, fileVars, cliVars>>

\* A worker process ends the call of future f.
Worker_Finish(f) ==
    /\ pc \in {"c_init", "c_while", "c_wait", "c_for", "c_result", "c_check", "c_submit"}
    /\ f <= Len(fut)
    /\ fut[f].state = "running"
    /\ \E o \in WorkerOutcomes(service) : fut' = [fut EXCEPT ![f].state = o]
    /\ UNCHANGED <<service, workers, stopping, futures, done, future, rng, scenario>>
    /\ UNCHANGED pc
    /\ UNCHANGED <<matchVars, loggerVars, selVars, scenVars, fileVars, cliVars>>

InitCoord ==
    /\ driver \in {"supervisor", "service"}
    /\ max_ticks = 1
    /\ fuel_limit = None
    /\ n = 1
    /\ m = 1
    /\ n_times = 1
    /\ Fresh
    /\ PlainStart
    /\ pc = "c_init"
    /\ service = driver
    /\ workers \in 1..MaxWorkers
    /\ stopping = FALSE
    /\ futures = {}
    /\ done = {}
    /\ future = 0
    /\ fut = <<>>
    /\ \E seed \in SessionSeeds : rng = Random(IF service = "supervisor" THEN seed ELSE 0)
    /\ scenario = 0
    /\ LoggerIdle /\ SelIdle /\ ScenIdle /\ FileIdle /\ CliIdle

CoordStep ==
    \/ Coord_InitSubmit
    \/ Coord_While
    \/ Coord_Wait
    \/ Coord_For
    \/ Coord_Result
    \/ Coord_Check
    \/ Coord_Submit

NextCoord ==
    \/ CoordStep
    \/ Signal
    \/ \E f \in 1..MaxSubmits : Worker_Finish(f)

SpecCoord == InitCoord /\ [][NextCoord]_vars

\* The coordinator's thread keeps running, and every call a worker has taken
\* ends.
SpecCoordFair ==
    /\ SpecCoord
    /\ WF_vars(CoordStep)
    /\ \A f \in 1..MaxSubmits : WF_vars(Worker_Finish(f))

\* ================================================================ claims
Last(sq) == sq[Len(sq)]

\* __init__ has returned: the log is allocated as its last statement.
Constructed == log # <<>>

\* The lengths of all the series the log keeps for team t.
SeriesLens(t) ==
    UNION {{Len(log[t].ships[id].x), Len(log[t].ships[id].y),
            Len(log[t].ships[id].heading), Len(log[t].ships[id].alive),
            Len(log[t].shots[id].x), Len(log[t].shots[id].y),
            Len(log[t].shots[id].lifetime), Len(log[t].actions[id])}
           : id \in TeamIdSet(t)}
    \cup {Len(log[t].scores), Len(log[t].fuel)}

AllLens == UNION {SeriesLens(t) : t \in 1..n}

\* C1: between tick() calls every series of every team and id has as many
\* entries as tick() calls have completed, whichever agents are latched and
\* whether or not the match is over.
C1_EqualLengths ==
    pc = "idle" => AllLens = {done_calls}

\* Two calls completed on two ships, both after the match had ended, with a
\* latched agent.
C1_Witness ==
    /\ pc = "idle"
    /\ done_calls = MaxCalls
    /\ stalled >= 2
    /\ n * m >= 2
    /\ \E a \in DOMAIN agents : agents[a].trapped

\* C2 as stated: between tick() calls the common length is the tick counter.
C2_LengthIsTicks ==
    pc = "idle" => AllLens = {ticks}

\* C2 amended: the tick counter counts n_times for each call that returned
\* more than one live team and nothing for the others, so the common length is
\* ticks / n_times plus the number of calls that returned teams_alive <= 1.
C2_LengthVsTicks ==
    pc = "idle" => \A l \in AllLens : l * n_times = ticks + stalled * n_times

\* A call that advanced the match followed by one that found it over.
C2_Witness ==
    /\ pc = "idle"
    /\ ticks >= 1
    /\ stalled >= 1

\* C3: a latched agent stays latched, its guest is not entered, its fuel is not
\* set, and its make_action returns None (the value logged at line 166).
C3_LatchIsFinal ==
    [][\A a \in DOMAIN agents :
          agents[a].trapped =>
             /\ agents'[a] = agents[a]
             /\ (pc = "C" /\ i = a /\ pc' # "raised") =>
                   Last(log'[a].actions[TeamIds(a)[j]]) = None]_vars

\* A whole tick has run on an agent latched earlier whose store holds less
\* fuel than a refuel would give it.
C3_Witness ==
    /\ pc = "idle"
    /\ fuel_limit # None
    /\ \E a \in DOMAIN agents :
          /\ agents[a].trapped
          /\ agents[a].when < done_calls
          /\ agents[a].fuel # fuel_limit

\* C4 as stated: the actions logged for a latched agent's ids in the ticks
\* after the one in which it was latched are 0.
C4_LatchedActionsAreZero ==
    pc = "idle" =>
       \A a \in 1..n :
          agents[a].trapped =>
             \A id \in TeamIdSet(a) :
                \A q \in (agents[a].when + 1)..Len(log[a].actions[id]) :
                   log[a].actions[id][q] = Some(0)

\* How often the last tick() issued the call op on tgt about id.
Count(op, tgt, id) ==
    Cardinality({q \in DOMAIN calls :
                    calls[q].op = op /\ calls[q].tgt = tgt /\ calls[q].id = id})

\* The teams with a ship whose last logged alive entry is true.
TeamsAliveLogged ==
    Cardinality({t \in 1..n : \E id \in TeamIdSet(t) : Last(log[t].ships[id].alive)})

\* The completed tick() went through every phase for every team and id.
FullTick ==
    /\ \A a \in 1..n : Count("clear_world_state", a, NoId) = 1
    /\ \A t \in 1..n : \A id \in TeamIdSet(t) :
          /\ \A op \in {"is_alive", "get_ship_pose", "get_shot_pose", "get_score",
                        "set_action"} : Count(op, Engine, id) = 1
          /\ \A a \in 1..n : \A op \in {"update_ship", "update_shot", "update_score"} :
                Count(op, a, id) = 1
          /\ Count("make_action", t, id) = 1
    /\ ret = Some(TeamsAliveLogged)
    /\ Count("tick", Engine, NoId) = IF TeamsAliveLogged > 1 THEN 1 ELSE 0

\* C5: tick() raises only when an engine export failed; whatever the agents'
\* guests do, a tick in which no engine export fails runs every phase for every
\* team and id and returns the number of live teams.
C5_TickSurvivesAgents ==
    /\ (pc = "raised" /\ Constructed) => eng.failed
    /\ (pc = "idle" /\ done_calls >= 1) => FullTick

\* The second tick of a two-team match has completed, and an agent was latched
\* during it.
C5_Witness ==
    /\ pc = "idle"
    /\ n = 2
    /\ done_calls = 2
    /\ \E a \in DOMAIN agents : agents[a].trapped /\ agents[a].when = 2

\* C6 as stated: construction is aborted only by the engine, never by what an
\* agent's guest does.
C6_ConstructionSurvivesAgents ==
    (pc = "raised" /\ ~Constructed) => eng.failed

\* C7: once an engine export has failed the exception is out of the
\* constructor or of tick(): the failed call is the last one made, the tick
\* counter stands where the last completed call left it, and nothing runs after.
C7_EngineFailureIsFatal ==
    /\ [](eng.failed =>
            /\ pc = "raised"
            /\ Last(calls).tgt = Engine
            /\ ticks = n_times * (done_calls - stalled))
    /\ [][~eng.failed]_vars

\* set_action failed in a tick that followed a completed one.
C7_Witness ==
    /\ eng.failed
    /\ pc = "raised"
    /\ done_calls >= 1
    /\ ticks >= 1
    /\ Last(calls).op = "set_action"

\* C8 as stated: a runner's loop makes at most max_ticks calls, and when it
\* ends the last call returned teams_alive <= 1 or the tick counter is max_ticks.
C8_LoopTermination ==
    pc = "finished" =>
       /\ done_calls <= max_ticks
       /\ IF ret = None THEN ticks = max_ticks
          ELSE ret[1] <= 1 \/ ticks = max_ticks

\* The largest index among the names in logs.
MaxIndexOf(logs) ==
    CHOOSE v \in {int(f.digits) : f \in logs} : \A g \in logs : int(g.digits) <= v

\* C10: the first index is 0 without a matching file and the largest existing
\* index plus one otherwise; the p-th save writes scubywasm-log_<first + p - 1>
\* .json, in canonical decimal, and leaves the index one above it; the saves
\* into a directory without logs are exactly 0..K-1, and no file that matched
\* at creation is written.
C10_LogNumbering ==
    pc = "logger" =>
       LET K == Len(saved)
           first == IF existing = {} THEN 0 ELSE MaxIndexOf(existing) + 1
       IN /\ idx = first + K
          /\ \A q \in 1..K :
                /\ pattern_match(saved[q])
                /\ saved[q].digits = str(first + q - 1)
                /\ int(saved[q].digits) = first + q - 1
                /\ saved[q] \in files
                /\ saved[q] \notin existing
                /\ \A e \in existing : int(e.digits) < int(saved[q].digits)
          /\ \A q \in 1..K : \A r \in (q + 1)..K :
                int(saved[q].digits) < int(saved[r].digits)
          /\ existing = {} =>
                /\ K >= 1 => saved[1].digits = <<0>>
                /\ Logs(files) = {LogFile(q) : q \in 0..(K - 1)}

\* Three saves after a directory whose largest log is written with a leading
\* zero: 8, 9 and the two-digit 10.
C10_Witness ==
    /\ pc = "logger"
    /\ FileName("scubywasm-log_", <<0, 7>>, ".json") \in existing
    /\ FileName("scubywasm-log_", <<7>>, ".json") \notin existing
    /\ Len(saved) = 3
    /\ saved[3].digits = <<1, 0>>

\* What the last tick() issued in and after its action phase.
ActionPhase ==
    SelectSeq(calls, LAMBDA e : e.op \in {"make_action", "set_action", "tick"})

\* The tick counter the last completed tick() started with.
TicksBefore == IF ret[1] > 1 THEN ticks - n_times ELSE ticks

\* C20: a completed tick() has issued, for the ids in team order and within a
\* team in id order, make_action(id, tick counter) on the owning agent and
\* right after it one set_action(id, a) on the engine, a being the logged
\* answer of make_action or 0 when there is none (latched agent, or the guest
\* returned none); the engine's tick, if any, comes after all of them.
C20_ActionPhase ==
    (pc = "idle" /\ done_calls >= 1) =>
       LET ids == n * m
           owner(q) == ((q - 1) \div m) + 1
           answer(q) == Last(log[owner(q)].actions[agent_ids[q]])
           sent(q) == IF answer(q) = None THEN 0 ELSE answer(q)[1]
           ap == ActionPhase
       IN /\ Len(ap) = 2 * ids + (IF ret[1] > 1 THEN 1 ELSE 0)
          /\ \A q \in 1..ids :
                /\ ap[2 * q - 1] = Ev("make_action", owner(q), agent_ids[q], TicksBefore)
                /\ ap[2 * q] = Ev("set_action", Engine, agent_ids[q], sent(q))
                /\ agents[owner(q)].when \in 0..(done_calls - 1) => sent(q) = 0
          /\ \A q \in 1..(ids - 1) : agent_ids[q] < agent_ids[q + 1]
          /\ ret[1] > 1 => ap[Len(ap)] = Ev("tick", Engine, NoId, n_times)

\* The second tick of a two-team match went on to the engine's tick with one
\* agent latched before it and the other answering 1.
C20_Witness ==
    /\ pc = "idle"
    /\ done_calls = 2
    /\ n = 2
    /\ ret = Some(2)
    /\ \E a \in 1..n : agents[a].trapped /\ agents[a].when < 2
    /\ \E a \in 1..n : Last(log[a].actions[agent_ids[a]]) = Some(1)

\* The files of directory d that are named agent-v<int>.wasm.
AgentFilesOf(d) ==
    {f \in d.files : f.prefix = "agent-v" /\ f.digits # <<>> /\ f.suffix = ".wasm"}

\* C11: when the selection is over, every team directory with a file named
\* agent-v<int>.wasm has exactly one selected file, one of those with the
\* largest <int>; every other entry has none; the selected files are in
\* ascending order of their directory names; and the match is skipped exactly
\* when nothing was selected.
C11_Selection ==
    pc \in {"sel_empty", "sel_game"} =>
       LET chosen(d) == {q \in 1..Len(agent_wasmfiles) :
                            agent_wasmfiles[q].parent = d.name}
       IN /\ \A d \in agents_dir :
                IF d.is_dir /\ AgentFilesOf(d) # {}
                THEN /\ Cardinality(chosen(d)) = 1
                     /\ \A q \in chosen(d) :
                           /\ agent_wasmfiles[q].file \in AgentFilesOf(d)
                           /\ \A g \in AgentFilesOf(d) :
                                 int(g.digits) <= int(agent_wasmfiles[q].file.digits)
                ELSE chosen(d) = {}
          /\ \A q \in 1..Len(agent_wasmfiles) :
                \E d \in agents_dir : agent_wasmfiles[q].parent = d.name
          /\ \A q \in 1..(Len(agent_wasmfiles) - 1) :
                str_lt(agent_wasmfiles[q].parent, agent_wasmfiles[q + 1].parent)
          /\ (pc = "sel_empty") = (agent_wasmfiles = <<>>)

\* Three teams were selected; "b" took agent-v12.wasm out of versions 3, 12
\* and 9 and two names that do not count.
C11_Witness ==
    /\ pc = "sel_game"
    /\ Len(agent_wasmfiles) = 3
    /\ agent_wasmfiles[3] = [parent |-> <<2>>, file |-> FileName("agent-v", <<1, 2>>, ".wasm")]
    /\ Entry(<<2>>, TRUE, {FileName("agent-v", <<3>>, ".wasm"),
                           FileName("agent-v", <<1, 2>>, ".wasm"),
                           FileName("agent-v", <<9>>, ".wasm"),
                           FileName("agent-v", <<>>, ".wasm"),
                           FileName("old-agent-v", <<9, 9>>, ".wasm")}) \in agents_dir

\* main is over, or serving.
CliSettled == pc \in {"cli_exit", "cli_serving"}

\* C17 as stated: the supervisor checks the fuel limit only when one is given:
\* without one and with the other flags in order it goes on to submit matches;
\* with one below 100 it exits with the usage error, nothing submitted.
C17_FuelLimitOptional ==
    (program = "supervisor" /\ CliSettled /\ args.files_ok /\ args.workers >= 1
        /\ args.multiplicity >= 1) =>
       /\ (args.fuel_limit = None /\ args.max_ticks >= 1) =>
             (outcome.exit = None /\ outcome.built)
       /\ (args.fuel_limit # None /\ args.fuel_limit[1] < FuelFloor) =>
             (outcome.exit = Some(UsageError) /\ ~outcome.built)

\* C18 as stated: the local runner, given a flag below its bound, exits
\* non-zero without building a Game, and a run it does make uses the flags as
\* they were given.
C18_LocalFlagBounds ==
    (program = "local" /\ CliSettled) =>
       /\ (\/ args.multiplicity < 1
           \/ (args.fuel_limit # None /\ args.fuel_limit[1] < FuelFloor)
           \/ args.max_ticks < 1
           \/ args.memory_limit < 2 * PageBytes) =>
             (outcome.exit \notin {None, Some(0)} /\ ~outcome.built)
       /\ outcome.built =>
             /\ outcome.game.max_ticks = args.max_ticks
             /\ outcome.game.memory_limit = Some(args.memory_limit)

\* An element the documentation of the file does not allow.
IllFormed(e) ==
    \/ ~e.is_dict
    \/ \E q \in Properties : e.at[q] = "absent"
    \/ e.at["name"] # "str"
    \/ \E q \in Properties \ {"name"} : e.at[q] # "int"

\* C16 as stated: when the array holds an ill-formed element, reading it ends
\* with the validator's ValueError, raised before any Scenario exists.
C16_IllFormedIsValueError ==
    (pc \in {"rs_raised", "rs_pool"} /\ \E q \in 1..Len(scenario_file) : IllFormed(scenario_file[q])) =>
        /\ pc = "rs_raised"
        /\ error # None
        /\ error[1].kind = "ValueError"
        /\ error[1].what \in {"object", "missing", "name"} \cup Properties

\* What need_restart looks at in a lineup.
Tracked(l) == {[name |-> f.name, mtime |-> f.mtime, size |-> f.size] : f \in l}

\* The first half of C15: in a round with a lineup, the restart happens exactly
\* when the names or a tracked (mtime, size) differ from the snapshot or there
\* is no results directory; it resets the round counter, takes the discovered
\* lineup as the snapshot and names a new results directory, the match still
\* to come; otherwise snapshot and directory stay.
RestartRule ==
    (pc = "run_decide" /\ found # {}) =>
        IF keys(found) # keys(self_agents) \/ Tracked(found) # Tracked(self_agents)
              \/ result_dir = None
        THEN /\ self_round' = 0
             /\ self_agents' = found
             /\ result_dir' # None
             /\ result_dir' # result_dir
             /\ pc' = "run_game"
             /\ played' = None
        ELSE UNCHANGED <<self_agents, result_dir>>

\* C15 as stated: the restart rule, and every match is run with exactly the
\* lineup discovered at the start of its round.
C15_MatchOnDiscovered ==
    [][RestartRule /\ (pc = "run_game" => played'[1].agents = found)]_vars

\* C15, amended: the restart rule, and every match is run on the snapshot,
\* which has the names and the (mtime, size) of the lineup discovered at the
\* start of its round.
C15_MatchOnTracked ==
    [][RestartRule /\ (pc = "run_game" =>
                          /\ played'[1].agents = self_agents
                          /\ played'[1].dir = result_dir
                          /\ Tracked(played'[1].agents) = Tracked(found))]_vars

\* A match was run in a round without a restart, the agent file discovered in
\* that round being another one than the snapshot's.
C15_Witness ==
    /\ pc = "run_return"
    /\ played # None
    /\ played[1].round > 0
    /\ played[1].dir # Some(now)
    /\ played[1].agents # found

\* C12 as stated: once the flag is set it stays set, no future is submitted
\* any more, and no future that was submitted is taken back.
C12_NoSubmitAfterStop ==
    [][stopping =>
          /\ stopping'
          /\ Len(fut') = Len(fut)
          /\ \A f \in 1..Len(fut) :
                fut[f].state # "running" => fut'[f].state = fut[f].state]_vars

C14_FailureIsReplaced ==
    [][(future # 0 /\ pc' # pc /\ fut[future].state = "failed") =>
          /\ (pc = "c_check" /\ ~stopping) => pc' = "c_submit"
          /\ pc = "c_submit" =>
                /\ Len(fut') = Len(fut) + 1
                /\ IF service = "supervisor"
                   THEN /\ fut'[Len(fut')].seed = MT(rng.seed, rng.drawn + 1)
                        /\ rng'.drawn = rng.drawn + 1
                   ELSE fut'[Len(fut')].scenario = fut[future].scenario]_vars

\* A 32-bit value.
In32(w) == w.hi \in 0..(HalfWord - 1) /\ w.lo \in 0..(HalfWord - 1)

\* C19: in the supervisor the match submitted as number q has the q-th output
\* of the generator seeded with the session seed, a 32-bit value, whatever the
\* number of workers and the order in which matches ended.
C19_SeedStream ==
    service = "supervisor" =>
        /\ rng.drawn = Len(fut)
        /\ \A q \in 1..Len(fut) : fut[q].seed = MT(rng.seed, q) /\ In32(fut[q].seed)

\* Three matches were submitted to two workers, the second having ended and
\* been replaced while the first still runs.
C19_Witness ==
    /\ service = "supervisor"
    /\ workers = 2
    /\ Len(fut) = 3
    /\ fut[1].state = "running"
    /\ fut[2].collected

\* C22: a tick() that returns gives back the number of teams with a ship the
\* engine reported alive in this tick; if that number is above 1 the engine's
\* tick was called once, with n_times, and the counter has grown by n_times;
\* otherwise the engine was not called and the counter stands; either way every
\* series has its entry for the tick.  With one team the first tick returns 1
\* with the counter at 0 and every series of length 1.
C22_AdvanceOrTerminate ==
    [][(pc = "E" /\ pc' = "idle") =>
          LET alive == TeamsAliveLogged'
              engine_ticks == SelectSeq(calls', LAMBDA e : e.op = "tick")
          IN /\ ret' = Some(alive)
             /\ IF alive > 1
                THEN /\ engine_ticks = <<Ev("tick", Engine, NoId, n_times)>>
                     /\ ticks' = ticks + n_times
                     /\ eng'.clock = eng.clock + n_times
                ELSE /\ engine_ticks = <<>>
                     /\ ticks' = ticks
                     /\ eng' = eng
             /\ AllLens' = {done_calls + 1}
             /\ done_calls' = done_calls + 1
             /\ (n = 1 /\ done_calls = 0) =>
                   (ret' = Some(1) /\ ticks' = 0 /\ AllLens' = {1})]_vars

\* Of two teams one has lost its ships: the second tick returned 1 and left
\* the counter where the first had put it.
C22_Witness ==
    /\ pc = "idle"
    /\ n = 2
    /\ done_calls = 2
    /\ ret = Some(1)
    /\ ticks = n_times
    /\ n_times = 2

\* What the running tick() has called so far on the binding of agent a.
CallsOn(a) == SelectSeq(calls, LAMBDA e : e.tgt = a)

\* The three updates about the q-th registered id, as the engine stands.
UpdatesAbout(a, q) ==
    <<Ev("update_ship", a, agent_ids[q], NoVal),
      Ev("update_shot", a, agent_ids[q], NoVal),
      Ev("update_score", a, agent_ids[q], EngineScore(eng, agent_ids[q]))>>

RECURSIVE UpdatesUpTo(_, _)
UpdatesUpTo(a, q) ==
    IF q = 0 THEN <<>> ELSE UpdatesUpTo(a, q - 1) \o UpdatesAbout(a, q)

\* The calls on agent a up to and including its clear_world_state.
Prelude(a) ==
    IF fuel_limit # None
    THEN <<Ev("set_fuel", a, NoId, fuel_limit[1]), Ev("clear_world_state", a, NoId, NoVal)>>
    ELSE <<Ev("clear_world_state", a, NoId, NoVal)>>

\* From the first engine read of a tick to its last make_action the engine
\* reports the same clock, ships and scores.
EngineStands ==
    pc \in {"B", "Bcast", "C"} =>
        (eng'.clock = eng.clock /\ eng'.alive = eng.alive /\ eng'.score = eng.score)

TickNo == IF pc = "idle" THEN done_calls ELSE done_calls + 1

\* The positions in the trace at which the fuel of agent a was set.
FuelSets(a) == {q \in DOMAIN calls : calls[q].op = "set_fuel" /\ calls[q].tgt = a}

\* C23, with a fuel limit F: the constructor sets an agent's fuel once, to
\* 100*F, right before init_agent; a tick sets the fuel of an agent that was
\* not latched when the tick began once, to F, as the first thing done with the
\* agent, before any engine read, update or make_action, and never that of a
\* latched agent; a latched agent's fuel stays as it is, and so does the fuel
\* logged for its team from the tick it latched in.
C23_FuelPolicy ==
    /\ [](fuel_limit # None =>
            /\ (pc = "idle" /\ done_calls = 0) =>
                  \A a \in 1..n :
                     /\ SelectSeq(CallsOn(a), LAMBDA e : e.op \in {"set_fuel", "init_agent"})
                           = <<Ev("set_fuel", a, NoId, InitFuelFactor * fuel_limit[1]),
                               Ev("init_agent", a, NoId, NoVal)>>
                     /\ Cardinality(FuelSets(a)) = 1
            /\ (pc \in {"B", "Bcast", "C", "D", "E"} \/ (pc = "idle" /\ done_calls >= 1)) =>
                  \A a \in 1..n :
                     IF agents[a].when \in 0..(TickNo - 1)
                     THEN FuelSets(a) = {}
                     ELSE /\ Cardinality(FuelSets(a)) = 1
                          /\ SubSeq(CallsOn(a), 1, 2)
                                = <<Ev("set_fuel", a, NoId, fuel_limit[1]),
                                    Ev("clear_world_state", a, NoId, NoVal)>>
                          /\ \A q \in FuelSets(a) : \A p \in DOMAIN calls :
                                calls[p].op \in {"is_alive", "get_ship_pose", "get_shot_pose",
                                                 "get_score", "update_ship", "update_shot",
                                                 "update_score", "make_action"} => q < p
            /\ pc = "idle" =>
                  \A a \in 1..n :
                     agents[a].trapped =>
                        \A q \in 1..Len(log[a].fuel) :
                           q >= agents[a].when => log[a].fuel[q] = agents[a].fuel)
    /\ [][\A a \in DOMAIN agents :
             (fuel_limit # None /\ agents[a].trapped) => agents'[a].fuel = agents[a].fuel]_vars

\* Two ticks have run with a fuel limit; an agent that ran out of fuel in the
\* first was left at 0 in the second, while the other was refuelled.
C23_Witness ==
    /\ pc = "idle"
    /\ done_calls = 2
    /\ fuel_limit # None
    /\ n = 2
    /\ \E a, b \in 1..n : /\ agents[a].trapped
                          /\ agents[a].when = 1
                          /\ agents[a].fuel = Some(0)
                          /\ ~agents[b].trapped

\* C30 as stated: the fuel logged for a team is null exactly when no fuel limit
\* is configured, and with a limit F it is between 0 and F, for latched agents
\* as well, those latched by the constructor included.
C30_LoggedFuelBound ==
    pc = "idle" =>
       \A t \in 1..n : \A q \in 1..Len(log[t].fuel) :
          /\ (log[t].fuel[q] = None) = (fuel_limit = None)
          /\ fuel_limit # None => log[t].fuel[q][1] \in 0..fuel_limit[1]

\* C28 as stated: a round goes on to a match only with a lineup and a round
\* counter that, after the reset of a restart, is below max_rounds; a round
\* that does not run a match does not raise the counter; and the counter never
\* exceeds max_rounds.
C28_RoundLimit ==
    [][/\ (pc = "run_decide" /\ pc' = "run_game") =>
             (found # {} /\ self_round' < max_rounds)
       /\ (pc = "run_decide" /\ pc' = "run_return") => self_round' <= self_round
       /\ self_round' <= max_rounds]_vars

\* The runs of scenario s that a worker has not finished yet.
RunningOf(s) == {f \in 1..Len(fut) : fut[f].scenario = s /\ fut[f].state = "running"}

\* The runs of scenario s the coordinator has submitted and not collected.
InFlightOf(s) == {f \in 1..Len(fut) : fut[f].scenario = s /\ ~fut[f].collected}

\* C27 as stated: in the scenario service no scenario has two runs in flight,
\* and as long as stopping is not requested every scenario has its one run in
\* flight, or is the one being resubmitted.
C27_OneRunPerScenario ==
    (service = "service" /\ pc \in {"c_while", "c_wait", "c_for", "c_result", "c_check", "c_submit"}) =>
        \A s \in 1..workers :
           /\ Cardinality(InFlightOf(s)) <= 1
           /\ Cardinality(RunningOf(s)) <= 1
           /\ ~stopping =>
                 \/ Cardinality(InFlightOf(s)) = 1
                 \/ (pc \in {"c_check", "c_submit"} /\ fut[future].scenario = s)
                 \/ \E f \in done : fut[f].scenario = s

\* C29 as stated: the supervisor calls the worker function with the keywords it
\* takes, and of the matches it has collected exactly those that ended with a
\* log were saved, none of them lost to an exception of the call itself.
C29_MatchToLog ==
    service = "supervisor" =>
        \A f \in 1..Len(fut) :
           /\ fut[f].kwargs = RunGameParams
           /\ fut[f].collected => (fut[f].saved = (fut[f].state = "result"))

\* C25: construction hands the agents the first N randint draws of the
\* generator seeded with the master seed, one per agent in team order, all
\* taken before any draw for the start poses, and each seed is a 32-bit
\* value (0 <= seed < 2^32).
C25_SeedsAre32Bit ==
    /\ Len(seeds) <= n
    /\ pc \in {"idle", "register"} => Len(seeds) = n
    /\ pc \in {"new", "agent_module", "agent_init", "agent_cfg", "poses"}
         => game_rng.drawn = Len(seeds)
    /\ \A t \in 1..Len(seeds) :
         /\ seeds[t] = Succ(MT(game_rng.seed, t))
         /\ In32(seeds[t])

\* The add_agent calls of the trace, in order.
Registrations == SelectSeq(calls, LAMBDA e : e.op = "add_agent")
\* Construction has returned.
Built == log # <<>>
\* Construction has returned and no tick() has started: calls is its trace.
JustBuilt == Built /\ pc = "idle" /\ done_calls = 0
\* The ids returned by registrations (t-1)*M+1 .. t*M (t counted from 1).
RegisteredFor(t) == {agent_ids[q] : q \in ((t - 1) * m + 1)..(t * m)}
LogKeys(t) == <<DOMAIN log[t].ships, DOMAIN log[t].shots, DOMAIN log[t].actions>>
Layout == <<n, m, eng.n, agent_ids, [t \in DOMAIN log |-> LogKeys(t)]>>
BadPoseList == init_poses.given /\ Len(init_poses.list) # n * m

C24_State ==
    /\ JustBuilt =>
         /\ Len(Registrations) = n * m
         /\ Len(init_poses.list) = n * m
         /\ \A q \in 1..(n * m) :
              Registrations[q].val = q /\ Registrations[q].id = agent_ids[q]
         /\ Len(agents) = n
         /\ \A a, b \in 1..Len(calls) :
              calls[a].op = "add_agent" /\ calls[b].op # "add_agent" => b < a
    /\ Built =>
         /\ eng.n = n * m
         /\ Len(agent_ids) = n * m
         /\ \A a, b \in 1..(n * m) : agent_ids[a] = agent_ids[b] => a = b
         /\ DOMAIN log = 1..n
         /\ \A t \in 1..n :
              LogKeys(t) = <<RegisteredFor(t), RegisteredFor(t), RegisteredFor(t)>>
         /\ ~JustBuilt => Registrations = <<>>
         /\ \A q \in 1..Len(calls) :
              calls[q].op = "make_action"
                => calls[q].id \in RegisteredFor(calls[q].tgt)
    /\ BadPoseList =>
         /\ ~Built
         /\ pc \in {"new", "agent_module", "agent_init", "agent_cfg", "poses",
                    "raised", "value_error"}
         /\ Registrations = <<>>
         /\ agent_ids = <<>>
         /\ eng.n = 0
    /\ pc = "value_error" => BadPoseList /\ Len(agents) = n

C24_Step ==
    /\ Built => Layout' = Layout
    /\ pc = "poses" /\ BadPoseList => pc' = "value_error"
    /\ pc' = "register" /\ pc # "register" => Len(agents) = n /\ ticks = 0

\* C24: a construction that returns has called add_agent exactly N*M times,
\* once per start pose in pose order, after every agent was built and before
\* any tick; team t owns exactly the ids of registrations (t-1)*M+1 .. t*M;
\* afterwards no add_agent is called and the teams, the ids and the keys of
\* the log stay as they are.  A supplied pose list of another length ends
\* construction in a ValueError with no ship registered.
C24_Registration == []C24_State /\ [][C24_Step]_vars

C24_Witness ==
    /\ Built
    /\ ticks > 0
    /\ n * m = MaxIds
    /\ init_poses.given

\* The poses have been generated.
Generated == ~init_poses.given /\ init_poses.list # <<>>
\* The grid cell (i, j) a generated pose lies in.
CellOf(p) == <<p.x \div Resolution, p.y \div Resolution>>
\* c + 0.4 <= v <= c + 0.6, in steps of 1 / Resolution
InBand(v, c) ==
    /\ 5 * v >= 5 * c * Resolution + 2 * Resolution
    /\ 5 * v <= 5 * c * Resolution + 3 * Resolution

\* C26: without supplied poses, G = ceil(sqrt(N*M)) has G*G >= N*M, exactly
\* N*M poses are laid out and registered, no two of them in the same cell
\* (i, j) of the G x G grid, each with x in [(i+0.4)/G, (i+0.6)/G] and y in
\* [(j+0.4)/G, (j+0.6)/G], hence inside [0, 1).
C26_GeneratedPoses ==
    LET G == grid_size(n * m)
        ps == init_poses.list
    IN /\ G * G >= n * m
       /\ (G - 1) * (G - 1) < n * m
       /\ ~init_poses.given /\ pc \in {"register", "idle", "A", "B", "Bcast", "C", "D", "E"}
            => Generated
       /\ Generated =>
            /\ Len(ps) = n * m
            /\ \A q \in 1..Len(ps) :
                 /\ CellOf(ps[q])[1] \in 0..(G - 1)
                 /\ CellOf(ps[q])[2] \in 0..(G - 1)
                 /\ InBand(ps[q].x, CellOf(ps[q])[1])
                 /\ InBand(ps[q].y, CellOf(ps[q])[2])
                 /\ ps[q].x >= 0 /\ ps[q].x < G * Resolution
                 /\ ps[q].y >= 0 /\ ps[q].y < G * Resolution
            /\ \A q, r \in 1..Len(ps) : CellOf(ps[q]) = CellOf(ps[r]) => q = r
            /\ JustBuilt =>
                 /\ Len(Registrations) = n * m
                 /\ \A q \in 1..(n * m) : Registrations[q].val = q

C26_Witness ==
    /\ Generated
    /\ JustBuilt
    /\ grid_size(n * m) * grid_size(n * m) > n * m
    /\ \E q \in 1..Len(init_poses.list) : CellOf(init_poses.list[q])[1] > 0

\* The seed is never assigned after __init__, and a match is given it.
SeedKept ==
    /\ self_seed' = self_seed
    /\ pc = "run_game" =>
         /\ played'[1].args.seed = self_seed
         /\ last_game # None => played'[1].args.seed = last_game[1].args.seed

\* C31, as stated: the scenario's seed is chosen at creation and no round,
\* sleep or restart changes it, every match is constructed with it, and two
\* rounds that discover the same lineup are given identical match inputs.
C31_SameLineupSameInputs ==
    [][SeedKept /\ (pc = "run_game" /\ last_game # None
                       /\ last_game[1].lineup = found
                    => played'[1].args = last_game[1].args)]_vars

\* C31, amended: the seed is frozen as stated, and two rounds run on the same
\* snapshot are given identical match inputs.
C31_SeedFrozen ==
    [][SeedKept /\ (pc = "run_game" /\ last_game # None
                       /\ last_game[1].args.agent_wasms = self_agents
                    => played'[1].args = last_game[1].args)]_vars

\* A later round of a restarted scenario has run a match, on the snapshot and
\* with the seed of the match before it.
C31_Witness ==
    /\ played # None
    /\ last_game # None
    /\ last_game[1].args = played[1].args
    /\ played[1].round > 0
    /\ In32(self_seed)
    /\ self_seed # Word(0, 0)
    /\ result_dir # Some(1)

====
